---- MODULE Spec2Model ----
(***************************************************************************)
(* Policy layer of Ax-LocalTools-MCP: path guard (lib/pathUtils.js,        *)
(* tools/securityValidator.js), command policy (lib/commandPolicy.js,      *)
(* tools/commandExecution.js), permission manager                          *)
(* (lib/crossPlatformPermissions.js, tools/filePermissions.js) and the     *)
(* cross-platform watcher (tools/fileWatch.js).                            *)
(***************************************************************************)
EXTENDS Integers, Sequences, FiniteSets, TLC

VARIABLES
  platform,      \* process.platform
  cwd,           \* process.cwd()
  links,         \* symbolic links of the file system: records [at, to]
  files,         \* existing non-link file system objects (absolute paths)
  guardCall,     \* the last SecurityValidator call and its outcome
  resolveCall,   \* the last direct call of resolveUserPath + assertInHome
  resolveRepeat, \* the result of the call before it, when that call had the same
                 \* arguments and saw the same file system
  assertCall,    \* the last direct call of assertInHome with its options
  spawned,       \* processes started by execute_command, in order
  cmdLog,        \* the execute_command calls made so far, with their outcomes
  sudoers,       \* the machine lets the user run sudo without a password
  evalLog,       \* the evaluate() calls made so far, with what they returned
  perm,          \* permission bits of every file system object
  chmodDenied,   \* objects whose permissions the process may not change
  permCall,      \* the last file_permissions call and its outcome
  winFile,       \* the attributes of the file the Windows adapter works on
  winCall,       \* the last setPermissions call of the Windows adapter
  watchPc,       \* position of the file_watch call that owns the session
  watchPath,     \* CrossPlatformWatcher.watchPath
  wOptions,      \* CrossPlatformWatcher.options
  isActive,      \* CrossPlatformWatcher.isActive
  watchers,      \* CrossPlatformWatcher.watchers: directory -> fs.FSWatcher
  osHandles,     \* every fs.FSWatcher the session created, closed or not
  debounceTimers,\* CrossPlatformWatcher.debounceTimers: eventKey -> timer
  timers,        \* the debounce timers scheduled in the event loop
  stats,         \* CrossPlatformWatcher.stats
  tasks,         \* async calls suspended at an await of file system I/O (a bag)
  emitted,       \* events the session emitted to its listeners (a bag)
  activeWatchers,\* FileWatchTool.activeWatchers
  touches,       \* file system operations made below the watched root
  raws,          \* per (eventType, path): raw events the callbacks received
  bursts,        \* per (eventType, path): bursts of raw events begun
  unflushed,     \* per (eventType, path): a raw event came since the last flush
  sessionCall,   \* the last start() or stop() a caller made on the watcher itself
  tempWorkspace, \* WorkspaceManager.tempWorkspace
  defaultWorkspace, \* the DEFAULT_WORKSPACE value of the environment file
  wsDisk,        \* what the file system holds at each workspace path
  wsCall         \* the last workspace_manager call and its outcome

vars == <<platform, cwd, links, files, guardCall, resolveCall, resolveRepeat, assertCall,
          spawned, cmdLog,
          sudoers, evalLog, perm, chmodDenied, permCall, winFile, winCall,
          watchPc, watchPath, wOptions, isActive, watchers, osHandles, debounceTimers, timers,
          stats, tasks, emitted, activeWatchers, touches, raws, bursts, unflushed,
          sessionCall, tempWorkspace, defaultWorkspace, wsDisk, wsCall>>
guardVars == <<guardCall, resolveCall, resolveRepeat, assertCall>>
cmdVars == <<spawned, cmdLog, sudoers, evalLog>>
permVars == <<perm, chmodDenied, permCall, winFile, winCall>>
watchVars == <<watchPc, watchPath, wOptions, isActive, watchers, osHandles, debounceTimers,
               timers, stats, tasks, emitted, activeWatchers, touches, raws, bursts, unflushed,
               sessionCall>>
wsVars == <<tempWorkspace, defaultWorkspace, wsDisk, wsCall>>

envVars == <<platform, cwd, links, files>>

(***************************************************************************)
(* Paths.  An absolute path is the sequence of its segments; the string a  *)
(* path denotes is the sequence of its characters (Render), because the    *)
(* confinement check of assertInHome is a startsWith on strings.           *)
(***************************************************************************)
CharsOf ==
  [ home     |-> <<"h","o","m","e">>,
    alice    |-> <<"a","l","i","c","e">>,
    Alice    |-> <<"A","l","i","c","e">>,
    alice2   |-> <<"a","l","i","c","e","2">>,
    notes    |-> <<"n","o","t","e","s">>,
    todo     |-> <<"t","o","d","o">>,
    proj     |-> <<"p","r","o","j">>,
    lnk      |-> <<"l","n","k">>,
    inlnk    |-> <<"i","n","l","n","k">>,
    etc      |-> <<"e","t","c">>,
    passwd   |-> <<"p","a","s","s","w","d">>,
    srv      |-> <<"s","r","v">>,
    app      |-> <<"a","p","p">>,
    f        |-> <<"f">>,
    a        |-> <<"a">>,
    b        |-> <<"b">>,
    c        |-> <<"c">>,
    s        |-> <<"s">>,
    Users    |-> <<"U","s","e","r","s">>,
    users    |-> <<"u","s","e","r","s">>,
    xueyuheng |-> <<"x","u","e","y","u","h","e","n","g">>,
    research |-> <<"r","e","s","e","a","r","c","h">>,
    mcp      |-> <<"m","c","p">>,
    guerrilla |-> <<"g","u","e","r","r","i","l","l","a">>,
    unc      |-> <<"\\","\\","s","\\","s","\\","f">>,
    longp    |-> <<"\\","\\","?","\\","C",":","\\","f">>,
    dotgit   |-> <<".","g","i","t">>,
    dotdot   |-> <<".", ".">>,
    dot      |-> <<".">> ]

DotDot == "dotdot"
Dot == "dot"

UpperLetters == <<"A","B","C","D","E","F","G","H","I","J","K","L","M",
                  "N","O","P","Q","R","S","T","U","V","W","X","Y","Z">>
LowerLetters == <<"a","b","c","d","e","f","g","h","i","j","k","l","m",
                  "n","o","p","q","r","s","t","u","v","w","x","y","z">>

UpperSet == {UpperLetters[i] : i \in 1..26}
LowerOf == [c \in UpperSet |-> LowerLetters[CHOOSE i \in 1..26 : UpperLetters[i] = c]]

\* String.prototype.toLowerCase on one character
LowerChar(c) == IF c \in UpperSet THEN LowerOf[c] ELSE c

ToLowerCase(s) == [i \in 1..Len(s) |-> LowerChar(s[i])]

StartsWith(s, pre) == Len(pre) <= Len(s) /\ SubSeq(s, 1, Len(pre)) = pre

Sep == <<"/">>

RECURSIVE RenderSegs(_)
RenderSegs(p) ==
  IF p = <<>> THEN <<>>
  ELSE Sep \o CharsOf[Head(p)] \o RenderSegs(Tail(p))

\* the string of an absolute path ("/" for the root)
Render(p) == IF p = <<>> THEN Sep ELSE RenderSegs(p)

\* the string of a caller-supplied input
RenderInput(in) ==
  IF in.abs THEN Render(in.segs)
  ELSE IF in.segs = <<>> THEN <<>> ELSE Tail(RenderSegs(in.segs))

\* path.normalize / path.resolve on segments: "." is dropped, ".." pops
RECURSIVE NormalizeFrom(_, _)
NormalizeFrom(acc, segs) ==
  IF segs = <<>> THEN acc
  ELSE IF Head(segs) = Dot THEN NormalizeFrom(acc, Tail(segs))
  ELSE IF Head(segs) = DotDot
       THEN NormalizeFrom(IF acc = <<>> THEN acc ELSE SubSeq(acc, 1, Len(acc) - 1), Tail(segs))
  ELSE NormalizeFrom(Append(acc, Head(segs)), Tail(segs))

PathJoin(base, segs) == NormalizeFrom(base, segs)

IsPrefix(p, q) == Len(p) <= Len(q) /\ SubSeq(q, 1, Len(p)) = p

RECURSIVE CommonLen(_, _)
CommonLen(p, q) ==
  IF p = <<>> \/ q = <<>> \/ Head(p) # Head(q) THEN 0
  ELSE 1 + CommonLen(Tail(p), Tail(q))

\* path.relative(from, to) for absolute from / to
PathRelative(from, to) ==
  LET k == CommonLen(from, to)
  IN [i \in 1..(Len(from) - k) |-> DotDot] \o SubSeq(to, k + 1, Len(to))

Home == <<"home", "alice">>
Null == <<"<null>">>
projectRoot == <<"Users", "xueyuheng", "research", "mcp">>
guerrillaPath == <<"users", "xueyuheng", "research", "guerrilla">>

isWindows == platform = "win32"
isMacOS == platform = "darwin"
isLinux == platform = "linux"
isUnix == isMacOS \/ isLinux

\* platformUtils.getPathConfig().maxLength
WinMaxLength == 32767
UnixMaxLength == 4096
maxLength == IF isWindows THEN WinMaxLength ELSE UnixMaxLength

\* /^\\\\[^\\]+\\[^\\]+/ also matches the \\?\C:\... form
isUNCPath(in) == isWindows /\ in.form \in {"unc", "long"}
isLongPath(in) == isWindows /\ in.form = "long"

Ok(p) == [ok |-> TRUE, path |-> p, code |-> "none"]
Fail(c) == [ok |-> FALSE, path |-> Null, code |-> c]

\* path.isAbsolute: on Windows the \\server\share and \\?\ forms are absolute,
\* elsewhere they are file names containing backslashes
isAbsolute(in) == in.abs \/ (isWindows /\ in.form # "plain")

\* resolveUserPath resolving a relative input against the path the previous call
\* returned, as if each call changed the directory it starts from
resolveUserPath_FromLastResult(in, workingDir, allowUNC, allowLongPath) ==
  IF in.segs = <<>> /\ ~in.abs THEN Fail("Error")
  ELSE
    LET raw == RenderInput(in)
        base ==
          IF StartsWith(raw, Render(projectRoot))
          THEN IF workingDir # Null
               THEN PathJoin(workingDir, PathRelative(projectRoot, NormalizeFrom(<<>>, in.segs)))
               ELSE NormalizeFrom(<<>>, in.segs)
          ELSE IF StartsWith(raw, Render(guerrillaPath))
          THEN IF workingDir # Null
               THEN PathJoin(workingDir, PathRelative(guerrillaPath, NormalizeFrom(<<>>, in.segs)))
               ELSE NormalizeFrom(<<>>, in.segs)
          ELSE IF isAbsolute(in) THEN NormalizeFrom(<<>>, in.segs)
          ELSE IF workingDir # Null THEN PathJoin(workingDir, in.segs)
          ELSE IF resolveCall.result.ok THEN PathJoin(resolveCall.result.path, in.segs)
          ELSE PathJoin(Home, in.segs)
    IN IF isWindows /\ isUNCPath(in) /\ ~allowUNC THEN Fail("E_UNC_PATH_DENIED")
       ELSE IF isWindows /\ isLongPath(in) /\ ~allowLongPath THEN Fail("E_LONG_PATH_DENIED")
       ELSE IF isWindows /\ Len(Render(base)) + in.pad > maxLength THEN Fail("E_PATH_TOO_LONG")
       ELSE Ok(base)

\* resolveUserPath(input, {workingDir, allowUNC, allowLongPath})
resolveUserPath(in, workingDir, allowUNC, allowLongPath) ==
  IF in.segs = <<>> /\ ~in.abs THEN Fail("Error")
  ELSE
    LET raw == RenderInput(in)
        base ==
          IF StartsWith(raw, Render(projectRoot))
          THEN IF workingDir # Null
               THEN PathJoin(workingDir, PathRelative(projectRoot, NormalizeFrom(<<>>, in.segs)))
               ELSE NormalizeFrom(<<>>, in.segs)
          ELSE IF StartsWith(raw, Render(guerrillaPath))
          THEN IF workingDir # Null
               THEN PathJoin(workingDir, PathRelative(guerrillaPath, NormalizeFrom(<<>>, in.segs)))
               ELSE NormalizeFrom(<<>>, in.segs)
          ELSE IF isAbsolute(in) THEN NormalizeFrom(<<>>, in.segs)
          ELSE IF workingDir # Null THEN PathJoin(workingDir, in.segs)
          ELSE PathJoin(Home, in.segs)
    IN IF isWindows /\ isUNCPath(in) /\ ~allowUNC THEN Fail("E_UNC_PATH_DENIED")
       ELSE IF isWindows /\ isLongPath(in) /\ ~allowLongPath THEN Fail("E_LONG_PATH_DENIED")
       ELSE IF isWindows /\ Len(Render(base)) + in.pad > maxLength THEN Fail("E_PATH_TOO_LONG")
       ELSE Ok(base)

(***************************************************************************)
(* File system view used by assertInHome.                                  *)
(***************************************************************************)
\* the object a path denotes once a link at the path, or at one of its
\* ancestors, is followed (fs.realpathSync)
RealPath(p) ==
  IF \E l \in links : IsPrefix(l.at, p)
  THEN LET l == CHOOSE l \in links : IsPrefix(l.at, p)
       IN l.to \o SubSeq(p, Len(l.at) + 1, Len(p))
  ELSE p

\* fs.existsSync follows links: a dangling link does not exist
existsSync(p) == RealPath(p) \in files
\* fs.lstatSync(p).isSymbolicLink()
isSymbolicLink(p) == \E l \in links : l.at = p

\* InHomeString without the trailing separator on either side
InHomeString_NoSep(target) ==
  IF isWindows
  THEN StartsWith(ToLowerCase(Render(target)), ToLowerCase(Render(Home)))
  ELSE StartsWith(Render(target), Render(Home))

\* the confinement test of assertInHome: startsWith on "<path><sep>"
InHomeString(target) ==
  LET homeSeparator == Render(Home) \o Sep
      targetSeparator == Render(target) \o Sep
  IN IF isWindows
     THEN StartsWith(ToLowerCase(targetSeparator), ToLowerCase(homeSeparator))
     ELSE StartsWith(targetSeparator, homeSeparator)

\* assertInHome with the symbolic-link branch left out
assertInHome_NoLinkCheck(absPath, allowSymlinks, strictMode) ==
  IF absPath = Null THEN Fail("E_INVALID_PATH")
  ELSE IF ~InHomeString(absPath) THEN Fail("E_PATH_DENIED")
  ELSE Ok(absPath)

\* assertInHome(absPath, {allowSymlinks, strictMode})
assertInHome(absPath, allowSymlinks, strictMode) ==
  IF absPath = Null THEN Fail("E_INVALID_PATH")
  ELSE
    LET isLink == isUnix /\ existsSync(absPath) /\ isSymbolicLink(absPath)
        targetPath == IF isLink /\ allowSymlinks THEN RealPath(absPath) ELSE absPath
    IN IF isLink /\ ~allowSymlinks /\ strictMode THEN Fail("E_SYMLINK_DENIED")
       ELSE IF ~InHomeString(targetPath) THEN Fail("E_PATH_DENIED")
       ELSE Ok(targetPath)

\* SecurityValidator.isPathAllowed(filePath, workingDirectory)
isPathAllowed(in, workingDirectory) ==
  LET abs == resolveUserPath(in, workingDirectory, FALSE, FALSE)
  IN abs.ok /\ assertInHome(abs.path, FALSE, TRUE).ok

\* SecurityValidator.resolveAndAssert(filePath, workingDirectory)
resolveAndAssert(in, workingDirectory) ==
  LET abs == resolveUserPath(in, workingDirectory, FALSE, FALSE)
  IN IF ~abs.ok THEN abs
     ELSE LET r == assertInHome(abs.path, FALSE, TRUE)
          IN IF r.ok THEN r ELSE Fail("E_PATH_DENIED")

(***************************************************************************)
(* Command policy (lib/commandPolicy.js).  A command is the sequence of    *)
(* its characters; the rule tables are the regular expressions of the      *)
(* source, matched by Test as RegExp.prototype.test matches them (flag i). *)
(***************************************************************************)
Digits == {"0","1","2","3","4","5","6","7","8","9"}

IsSpace(c) == c \in {" ", "\t", "\n"}
WordChars == UpperSet \cup {LowerLetters[i] : i \in 1..26} \cup Digits \cup {"_"}
IsWordChar(c) == c \in WordChars

\* every rule carries the flag i: literals are kept in lower case and are
\* matched against the lower-cased subject
Lit(cs) == [t |-> "lit", s |-> ToLowerCase(cs), set |-> {}]
Alt(as) == [t |-> "alt", s |-> <<>>, set |-> {ToLowerCase(a) : a \in as}]
Class(cs) == [t |-> "class", s |-> <<>>, set |-> cs]
WordB == [t |-> "b", s |-> <<>>, set |-> {}]
SpacePlus == [t |-> "s+", s |-> <<>>, set |-> {}]
SpaceStar == [t |-> "s*", s |-> <<>>, set |-> {}]
AnyStar == [t |-> "any*", s |-> <<>>, set |-> {}]
AnyChar == [t |-> "any", s |-> <<>>, set |-> {}]

LitAt(cs, s, pos) ==
  /\ pos + Len(cs) - 1 <= Len(s)
  /\ \A j \in 1..Len(cs) : s[pos + j - 1] = cs[j]

AtBoundary(s, pos) ==
  LET before == pos > 1 /\ pos - 1 <= Len(s) /\ IsWordChar(s[pos - 1])
      after == pos <= Len(s) /\ IsWordChar(s[pos])
  IN before # after

RECURSIVE MatchHere(_, _, _, _)
MatchHere(re, i, s, pos) ==
  IF i > Len(re) THEN TRUE
  ELSE LET it == re[i]
           rest == Len(s) - pos + 1
       IN CASE it.t = "lit" -> LitAt(it.s, s, pos) /\ MatchHere(re, i + 1, s, pos + Len(it.s))
            [] it.t = "alt" -> \E a \in it.set : LitAt(a, s, pos) /\ MatchHere(re, i + 1, s, pos + Len(a))
            [] it.t = "class" -> pos <= Len(s) /\ s[pos] \in it.set
                                 /\ MatchHere(re, i + 1, s, pos + 1)
            [] it.t = "any" -> pos <= Len(s) /\ s[pos] # "\n" /\ MatchHere(re, i + 1, s, pos + 1)
            [] it.t = "b" -> AtBoundary(s, pos) /\ MatchHere(re, i + 1, s, pos)
            [] it.t = "s+" -> \E k \in 1..rest :
                                 /\ \A j \in pos..(pos + k - 1) : IsSpace(s[j])
                                 /\ MatchHere(re, i + 1, s, pos + k)
            [] it.t = "s*" -> \E k \in 0..rest :
                                 /\ \A j \in pos..(pos + k - 1) : IsSpace(s[j])
                                 /\ MatchHere(re, i + 1, s, pos + k)
            [] it.t = "any*" -> \E k \in 0..rest :
                                 /\ \A j \in pos..(pos + k - 1) : s[j] # "\n"
                                 /\ MatchHere(re, i + 1, s, pos + k)

\* pattern.test(cmd)
Test(re, s) ==
  LET subject == ToLowerCase(s)
  IN \E pos \in 1..(Len(subject) + 1) : MatchHere(re, 1, subject, pos)

RECURSIVE TrimLeft(_)
TrimLeft(s) == IF s # <<>> /\ IsSpace(Head(s)) THEN TrimLeft(Tail(s)) ELSE s
RECURSIVE TrimRight(_)
TrimRight(s) ==
  IF s # <<>> /\ IsSpace(s[Len(s)]) THEN TrimRight(SubSeq(s, 1, Len(s) - 1)) ELSE s
\* String.prototype.trim
Trim(s) == TrimRight(TrimLeft(s))

UNIX_DENY ==
  << <<WordB, Lit(<<"p","a","s","s","w","d">>), WordB>>,
     <<WordB, Lit(<<"s","u">>), SpacePlus>>,
     <<WordB, Lit(<<"u","s","e","r","d","e","l">>), WordB>>,
     <<WordB, Lit(<<"u","s","e","r","a","d","d">>), WordB>>,
     <<WordB, Lit(<<"f","d","i","s","k">>), WordB>>,
     <<WordB, Lit(<<"m","k","f","s">>), WordB>>,
     <<WordB, Lit(<<"m","o","u","n","t">>), AnyStar, SpacePlus, Lit(<<"/">>), SpaceStar>>,
     <<WordB, Lit(<<"r","e","b","o","o","t">>), WordB>>,
     <<WordB, Lit(<<"s","h","u","t","d","o","w","n">>), WordB>>,
     <<WordB, Lit(<<"k","i","l","l","a","l","l">>), SpacePlus, Lit(<<"-","9">>)>> >>

\* UNIX_WARN without its rule for rm -rf
UNIX_WARN_NoRecursiveDelete ==
  << <<WordB, Lit(<<"r","m">>), SpacePlus, AnyStar, Lit(<<"/","*">>)>>,
     <<WordB, Lit(<<"s","u","d","o">>), WordB>>,
     <<WordB, Lit(<<"c","h","o","w","n">>), WordB>>,
     <<Lit(<<"c","h","m","o","d">>), SpacePlus, Lit(<<"7","7","7">>)>>,
     <<WordB, Lit(<<"c","h","m","o","d">>), SpacePlus, AnyStar, Lit(<<"7">>), AnyStar, Lit(<<"7">>), AnyStar, Lit(<<"7">>)>>,
     <<WordB, Lit(<<"d","i","s","k","u","t","i","l">>), WordB>>,
     <<WordB, Lit(<<"s","y","s","t","e","m","c","t","l">>), SpacePlus, Alt({<<"s","t","o","p">>, <<"d","i","s","a","b","l","e">>, <<"m","a","s","k">>})>>,
     <<WordB, Lit(<<"s","e","r","v","i","c","e">>), SpacePlus, AnyStar, SpacePlus, Alt({<<"s","t","o","p">>, <<"r","e","s","t","a","r","t">>})>>,
     <<WordB, Lit(<<"c","r","o","n","t","a","b">>), SpacePlus, Lit(<<"-","r">>)>>,
     <<WordB, Lit(<<"i","p","t","a","b","l","e","s">>), SpacePlus, Lit(<<"-","F">>)>>,
     <<WordB, Lit(<<"u","f","w">>), SpacePlus, Alt({<<"d","i","s","a","b","l","e">>, <<"r","e","s","e","t">>})>> >>

UNIX_WARN ==
  << <<WordB, Lit(<<"r","m">>), SpacePlus, Lit(<<"-","r","f">>), WordB>>,
     <<WordB, Lit(<<"r","m">>), SpacePlus, AnyStar, Lit(<<"/","*">>)>>,
     <<WordB, Lit(<<"s","u","d","o">>), WordB>>,
     <<WordB, Lit(<<"c","h","o","w","n">>), WordB>>,
     <<Lit(<<"c","h","m","o","d">>), SpacePlus, Lit(<<"7","7","7">>)>>,
     <<WordB, Lit(<<"c","h","m","o","d">>), SpacePlus, AnyStar, Lit(<<"7">>), AnyStar, Lit(<<"7">>), AnyStar, Lit(<<"7">>)>>,
     <<WordB, Lit(<<"d","i","s","k","u","t","i","l">>), WordB>>,
     <<WordB, Lit(<<"s","y","s","t","e","m","c","t","l">>), SpacePlus, Alt({<<"s","t","o","p">>, <<"d","i","s","a","b","l","e">>, <<"m","a","s","k">>})>>,
     <<WordB, Lit(<<"s","e","r","v","i","c","e">>), SpacePlus, AnyStar, SpacePlus, Alt({<<"s","t","o","p">>, <<"r","e","s","t","a","r","t">>})>>,
     <<WordB, Lit(<<"c","r","o","n","t","a","b">>), SpacePlus, Lit(<<"-","r">>)>>,
     <<WordB, Lit(<<"i","p","t","a","b","l","e","s">>), SpacePlus, Lit(<<"-","F">>)>>,
     <<WordB, Lit(<<"u","f","w">>), SpacePlus, Alt({<<"d","i","s","a","b","l","e">>, <<"r","e","s","e","t">>})>> >>

WINDOWS_DENY ==
  << <<WordB, Lit(<<"f","o","r","m","a","t">>), SpacePlus, Class({"c", "d", "e", "f", "g", "h", "i", "j", "k", "l", "m", "n", "o", "p", "q", "r", "s", "t", "u", "v", "w", "x", "y", "z"}), Lit(<<":">>)>>,
     <<WordB, Lit(<<"d","i","s","k","p","a","r","t">>), WordB>>,
     <<WordB, Lit(<<"s","f","c">>), SpacePlus, Lit(<<"/","s","c","a","n","n","o","w">>)>>,
     <<WordB, Lit(<<"d","i","s","m">>), WordB>>,
     <<WordB, Lit(<<"n","e","t">>), SpacePlus, Lit(<<"u","s","e","r">>), SpacePlus, AnyStar, Lit(<<"/","d","e","l","e","t","e">>)>>,
     <<WordB, Lit(<<"n","e","t">>), SpacePlus, Lit(<<"u","s","e","r">>), SpacePlus, AnyStar, Lit(<<"/","a","d","d">>)>>,
     <<WordB, Lit(<<"r","e","g">>), SpacePlus, Lit(<<"d","e","l","e","t","e">>), SpacePlus, Lit(<<"H","K","L","M">>)>>,
     <<WordB, Lit(<<"s","h","u","t","d","o","w","n">>), SpacePlus, Lit(<<"/","s">>)>>,
     <<WordB, Lit(<<"s","h","u","t","d","o","w","n">>), SpacePlus, Lit(<<"/","r">>)>>,
     <<WordB, Lit(<<"t","a","s","k","k","i","l","l">>), SpacePlus, Lit(<<"/","f">>), SpacePlus, Lit(<<"/","i","m">>), SpacePlus, Lit(<<"e","x","p","l","o","r","e","r">>), AnyChar, Lit(<<"e","x","e">>)>> >>

WINDOWS_WARN ==
  << <<WordB, Lit(<<"d","e","l">>), SpacePlus, Lit(<<"/","f">>), SpacePlus, Lit(<<"/","s">>), SpacePlus, Lit(<<"/","q">>)>>,
     <<WordB, Lit(<<"r","m","d","i","r">>), SpacePlus, Lit(<<"/","s">>)>>,
     <<WordB, Lit(<<"r","d">>), SpacePlus, Lit(<<"/","s">>)>>,
     <<WordB, Lit(<<"t","a","k","e","o","w","n">>), SpacePlus, Lit(<<"/","f">>)>>,
     <<WordB, Lit(<<"i","c","a","c","l","s">>), SpacePlus, AnyStar, Lit(<<"/","g","r","a","n","t">>)>>,
     <<WordB, Lit(<<"a","t","t","r","i","b">>), SpacePlus, AnyStar, Lit(<<"+">>), Class({"r", "h", "s"})>>,
     <<WordB, Lit(<<"n","e","t","s","h">>), SpacePlus, Lit(<<"f","i","r","e","w","a","l","l">>)>>,
     <<WordB, Lit(<<"p","o","w","e","r","s","h","e","l","l">>), SpacePlus, AnyStar, Lit(<<"R","e","m","o","v","e","-","I","t","e","m">>), AnyStar, Lit(<<"-","R","e","c","u","r","s","e">>)>>,
     <<WordB, Lit(<<"p","o","w","e","r","s","h","e","l","l">>), SpacePlus, AnyStar, Lit(<<"S","t","o","p","-","S","e","r","v","i","c","e">>)>>,
     <<WordB, Lit(<<"p","o","w","e","r","s","h","e","l","l">>), SpacePlus, AnyStar, Lit(<<"D","i","s","a","b","l","e","-","W","i","n","d","o","w","s","O","p","t","i","o","n","a","l","F","e","a","t","u","r","e">>)>>,
     <<WordB, Lit(<<"t","a","s","k","k","i","l","l">>), SpacePlus, Lit(<<"/","f">>)>>,
     <<WordB, Lit(<<"r","e","g">>), SpacePlus, Lit(<<"a","d","d">>), SpacePlus, Lit(<<"H","K","L","M">>)>> >>

POWERSHELL_DENY ==
  << <<Lit(<<"R","e","m","o","v","e","-","C","o","m","p","u","t","e","r">>)>>,
     <<Lit(<<"R","e","s","e","t","-","C","o","m","p","u","t","e","r","M","a","c","h","i","n","e","P","a","s","s","w","o","r","d">>)>>,
     <<Lit(<<"C","l","e","a","r","-","E","v","e","n","t","L","o","g">>)>>,
     <<Lit(<<"R","e","m","o","v","e","-","W","i","n","d","o","w","s","F","e","a","t","u","r","e">>)>>,
     <<Lit(<<"U","n","i","n","s","t","a","l","l","-","W","i","n","d","o","w","s","F","e","a","t","u","r","e">>)>> >>

POWERSHELL_WARN ==
  << <<Lit(<<"S","t","o","p","-","C","o","m","p","u","t","e","r">>)>>,
     <<Lit(<<"R","e","s","t","a","r","t","-","C","o","m","p","u","t","e","r">>)>>,
     <<Lit(<<"R","e","m","o","v","e","-","I","t","e","m">>), AnyStar, Lit(<<"-","R","e","c","u","r","s","e">>)>>,
     <<Lit(<<"S","t","o","p","-","S","e","r","v","i","c","e">>)>>,
     <<Lit(<<"S","e","t","-","E","x","e","c","u","t","i","o","n","P","o","l","i","c","y">>)>>,
     <<Lit(<<"N","e","w","-","L","o","c","a","l","U","s","e","r">>)>>,
     <<Lit(<<"R","e","m","o","v","e","-","L","o","c","a","l","U","s","e","r">>)>> >>


SudoRe == <<WordB, Lit(<<"s","u","d","o">>), WordB>>

\* identifyCommandType(command).type on platform pf
identifyCommandType(pf, command) ==
  LET cmd == ToLowerCase(Trim(command))
      win == pf = "win32"
  IN IF StartsWith(cmd, <<"p","o","w","e","r","s","h","e","l","l">>)
        \/ StartsWith(cmd, <<"p","w","s","h">>)
     THEN "powershell"
     ELSE IF win /\ (StartsWith(cmd, <<"c","m","d">>)
                     \/ (Len(cmd) >= 3 /\ (\E i \in 1..26 : cmd[1] = LowerLetters[i])
                         /\ cmd[2] = ":" /\ cmd[3] = "\\"))
     THEN "cmd"
     ELSE IF StartsWith(cmd, <<"b","a","s","h">>) \/ StartsWith(cmd, <<"s","h">>)
             \/ StartsWith(cmd, <<"z","s","h">>)
     THEN "shell"
     ELSE IF win THEN "cmd" ELSE "shell"

Verdict(l, r) == [level |-> l, reason |-> r]

\* evaluateVerdict consulting the sudo configuration of the machine even when
\* the checkSudoConfig option is off
evaluateVerdict_AlwaysChecksSudo(pf, command, allowSudo, checkSudo, sudoNoPassword) ==
  LET cmd == Trim(command)
      win == pf = "win32"
      cmdType == identifyCommandType(pf, cmd)
      denyPatterns ==
        IF win
        THEN WINDOWS_DENY \o (IF cmdType = "powershell" THEN POWERSHELL_DENY ELSE <<>>)
        ELSE UNIX_DENY
      warnPatterns ==
        IF win
        THEN WINDOWS_WARN \o (IF cmdType = "powershell" THEN POWERSHELL_WARN ELSE <<>>)
        ELSE UNIX_WARN
      hasSudo == Test(SudoRe, cmd)
      sudoInfoBlocks == ~(pf = "linux" /\ sudoNoPassword)
  IN IF cmd = <<>> THEN Verdict("deny", "empty")
     ELSE IF \E i \in 1..Len(denyPatterns) : Test(denyPatterns[i], cmd)
     THEN Verdict("deny", "forbidden")
     ELSE IF \E i \in 1..Len(warnPatterns) : Test(warnPatterns[i], cmd)
     THEN IF hasSudo
          THEN IF ~allowSudo THEN Verdict("warn", "sudo")
               ELSE IF sudoInfoBlocks THEN Verdict("warn", "sudo-password")
               ELSE Verdict("allow", "none")
          ELSE Verdict("warn", "high-risk")
     ELSE Verdict("allow", "none")

\* the verdict evaluate(command, {allowSudo, checkSudoConfig}) resolves to on
\* platform pf; sudoNoPassword is what checkSudoConfig() finds on the machine
evaluateVerdict(pf, command, allowSudo, checkSudo, sudoNoPassword) ==
  LET cmd == Trim(command)
      win == pf = "win32"
      cmdType == identifyCommandType(pf, cmd)
      denyPatterns ==
        IF win
        THEN WINDOWS_DENY \o (IF cmdType = "powershell" THEN POWERSHELL_DENY ELSE <<>>)
        ELSE UNIX_DENY
      warnPatterns ==
        IF win
        THEN WINDOWS_WARN \o (IF cmdType = "powershell" THEN POWERSHELL_WARN ELSE <<>>)
        ELSE UNIX_WARN
      hasSudo == Test(SudoRe, cmd)
      sudoInfoBlocks == checkSudo /\ ~(pf = "linux" /\ sudoNoPassword)
  IN IF cmd = <<>> THEN Verdict("deny", "empty")
     ELSE IF \E i \in 1..Len(denyPatterns) : Test(denyPatterns[i], cmd)
     THEN Verdict("deny", "forbidden")
     ELSE IF \E i \in 1..Len(warnPatterns) : Test(warnPatterns[i], cmd)
     THEN IF hasSudo
          THEN IF ~allowSudo THEN Verdict("warn", "sudo")
               ELSE IF sudoInfoBlocks THEN Verdict("warn", "sudo-password")
               ELSE Verdict("allow", "none")
          ELSE Verdict("warn", "high-risk")
     ELSE Verdict("allow", "none")

\* evaluate is declared async: a call returns a Promise, which holds the
\* pending evaluation until it is awaited
evaluate(command, allowSudo, checkSudo, sudoNoPassword) ==
  [promise |-> TRUE, command |-> command,
   options |-> <<allowSudo, checkSudo, sudoNoPassword>>]

\* `await promise`
Await(x) ==
  evaluateVerdict(platform, x.command, x.options[1], x.options[2], x.options[3])

\* the property reads `policy.level` and `policy.reason` on what evaluate
\* returned: a Promise has no such properties
LevelOf(policy) == IF policy.promise THEN "undefined" ELSE policy.level
ReasonOf(policy) == IF policy.promise THEN "undefined" ELSE policy.reason

\* "sudo systemctl stop nginx"
CmdSudoSystemctl == <<"s","u","d","o"," ","s","y","s","t","e","m","c","t","l"," ","s","t","o","p"," ","n","g","i","n","x">>

\* "cat file.txt"
CmdCatFile == <<"c","a","t"," ","f","i","l","e",".","t","x","t">>

\* "rm -rf /tmp/build"
CmdRmRf == <<"r","m"," ","-","r","f"," ","/","t","m","p","/","b","u","i","l","d">>

\* "ls -la"
CmdLs == <<"l","s"," ","-","l","a">>

\* "cat /etc/passwd"
CmdPasswd == <<"c","a","t"," ","/","e","t","c","/","p","a","s","s","w","d">>

\* "sudo rm -rf /x"
CmdSudoRm == <<"s","u","d","o"," ","r","m"," ","-","r","f"," ","/","x">>

\* "su - root -c rm -rf /x"
CmdSuRm == <<"s","u"," ","-"," ","r","o","o","t"," ","-","c"," ","r","m"," ","-","r","f"," ","/","x">>

\* "chmod 777 file.txt"
CmdChmod == <<"c","h","m","o","d"," ","7","7","7"," ","f","i","l","e",".","t","x","t">>

\* "  "
CmdEmpty == <<" "," ">>

\* "SUDO whoami"
CmdSudoWhoami == <<"S","U","D","O"," ","w","h","o","a","m","i">>

\* "rmdir /s build"
CmdRmdirWin == <<"r","m","d","i","r"," ","/","s"," ","b","u","i","l","d">>

\* "format d:"
CmdFormatWin == <<"f","o","r","m","a","t"," ","d",":">>

\* "powershell Stop-Service x"
CmdPsStop == <<"p","o","w","e","r","s","h","e","l","l"," ","S","t","o","p","-","S","e","r","v","i","c","e"," ","x">>

(***************************************************************************)
(* Permission manager (lib/crossPlatformPermissions.js) and the            *)
(* file_permissions tool (tools/filePermissions.js).                       *)
(***************************************************************************)
FileNames == {"todo", "passwd", "f"}

\* fs.stat(p).isDirectory()
IsDirectory(p) ==
  LET r == RealPath(p)
  IN r \in files /\ (r = <<>> \/ r[Len(r)] \notin FileNames)

\* the path the operating system opens for a string handed to fs.*:
\* a relative string is taken from process.cwd()
OsResolve(in) ==
  IF in.abs THEN NormalizeFrom(<<>>, in.segs) ELSE PathJoin(cwd, in.segs)

RECURSIVE SeqOfSet(_)
SeqOfSet(S) ==
  IF S = {} THEN <<>>
  ELSE LET x == CHOOSE x \in S : TRUE IN <<x>> \o SeqOfSet(S \ {x})

Reverse(q) == [i \in 1..Len(q) |-> q[Len(q) + 1 - i]]

\* fs.readdir(dirPath): the entries of the directory, in the order the
\* file system lists them
Readdir(p, rev) ==
  LET r == RealPath(p)
      names == { q[Len(q)] : q \in { x \in files : Len(x) = Len(r) + 1 /\ IsPrefix(r, x) } }
                 \cup { l.at[Len(l.at)] : l \in { x \in links : Len(x.at) = Len(r) + 1 /\ IsPrefix(r, x.at) } }
      listed == SeqOfSet(names)
  IN IF rev THEN Reverse(listed) ELSE listed

LimitError == [code |-> "none", msg |-> "depth-limit"]
ChmodError == [code |-> "none", msg |-> "set-permissions-failed"]
NoError == [code |-> "none", msg |-> "none"]

\* the permissions value file_permissions hands to the Windows adapter when
\* the call names no mode: an object with no attribute in it
NoAttributes == -1

\* adapter.setPermissions(filePath, permissions): fs.chmod follows links;
\* any failure is re-thrown as a plain Error.  The Windows adapter runs one
\* command per attribute requested, and none for an empty request
setPermissions(p, mode, st) ==
  LET r == RealPath(p)
  IN IF isWindows /\ mode = NoAttributes THEN [ok |-> TRUE, st |-> st]
     ELSE IF r \in files /\ r \notin chmodDenied
     THEN [ok |-> TRUE,
           st |-> [perm |-> [st.perm EXCEPT ![r] = mode], log |-> Append(st.log, p)]]
     ELSE [ok |-> FALSE, st |-> st]

Returned(st, results) == [st |-> st, results |-> results, thrown |-> FALSE, err |-> NoError]
Thrown(st, err) == [st |-> st, results |-> <<>>, thrown |-> TRUE, err |-> err]
Success(p) == [path |-> p, success |-> TRUE]
Failure(p, err) == [path |-> p, success |-> FALSE, error |-> err.msg]

\* the depth guard of setPermissionsRecursive
DepthExceeded(currentDepth, maxDepth) == currentDepth >= maxDepth

\* CrossPlatformPermissionManager.setPermissionsRecursive
RECURSIVE setPermissionsRecursive(_, _, _, _, _, _, _)
RECURSIVE walkItems(_, _, _, _, _, _, _, _, _)
RECURSIVE walkItems_SkipsAlways(_, _, _, _, _, _, _, _, _)
setPermissionsRecursive(dirPath, mode, maxDepth, currentDepth, skipErrors, rev, st) ==
  IF DepthExceeded(currentDepth, maxDepth) THEN Thrown(st, LimitError)
  ELSE
    LET set == setPermissions(dirPath, mode, st)
    IN IF ~set.ok
       THEN IF ~skipErrors THEN Thrown(st, ChmodError)
            ELSE Returned(st, <<Failure(dirPath, ChmodError)>>)
       ELSE
         LET items == IF IsDirectory(dirPath) THEN Readdir(dirPath, rev) ELSE <<>>
             sub == walkItems(dirPath, items, mode, maxDepth, currentDepth, skipErrors, rev,
                              set.st, <<Success(dirPath)>>)
         IN IF sub.thrown
            THEN IF ~skipErrors THEN sub
                 ELSE Returned(sub.st, Append(sub.results, Failure(dirPath, sub.err)))
            ELSE sub

\* the loop of setPermissionsRecursive recording every failure and going on,
\* whatever skipErrors says
walkItems_SkipsAlways(dirPath, items, mode, maxDepth, currentDepth, skipErrors, rev, st, results) ==
  IF items = <<>> THEN Returned(st, results)
  ELSE
    LET fullPath == Append(dirPath, Head(items))
        sub == setPermissionsRecursive(fullPath, mode, maxDepth, currentDepth + 1,
                                       skipErrors, rev, st)
    IN IF sub.thrown
       THEN walkItems_SkipsAlways(dirPath, Tail(items), mode, maxDepth, currentDepth,
                                  skipErrors, rev, sub.st,
                                  Append(results, Failure(fullPath, sub.err)))
       ELSE walkItems_SkipsAlways(dirPath, Tail(items), mode, maxDepth, currentDepth,
                                  skipErrors, rev, sub.st, results \o sub.results)

\* the `for (const item of items)` loop of setPermissionsRecursive
walkItems(dirPath, items, mode, maxDepth, currentDepth, skipErrors, rev, st, results) ==
  IF items = <<>> THEN Returned(st, results)
  ELSE
    LET fullPath == Append(dirPath, Head(items))
        sub == setPermissionsRecursive(fullPath, mode, maxDepth, currentDepth + 1,
                                       skipErrors, rev, st)
    IN IF sub.thrown
       THEN IF ~skipErrors THEN [sub EXCEPT !.results = results]
            ELSE walkItems(dirPath, Tail(items), mode, maxDepth, currentDepth, skipErrors, rev,
                           sub.st, Append(results, Failure(fullPath, sub.err)))
       ELSE walkItems(dirPath, Tail(items), mode, maxDepth, currentDepth, skipErrors, rev,
                      sub.st, results \o sub.results)

\* FilePermissionsTool.isValidMode
isValidMode(mode) == Len(mode) \in 3..4 /\ \A i \in 1..Len(mode) : mode[i] \in 0..7

\* parseInt(mode, 8)
RECURSIVE ParseOctal(_)
ParseOctal(mode) ==
  IF mode = <<>> THEN 0 ELSE ParseOctal(SubSeq(mode, 1, Len(mode) - 1)) * 8 + mode[Len(mode)]

\* the error kind FilePermissionsTool.handle re-throws from its catch block
RethrownKind(err) ==
  CASE err.code = "ENOENT" -> "E_NOT_FOUND"
    [] err.code = "E_PATH_DENIED" -> "E_PATH_DENIED"
    [] err.code = "E_LIMIT_REACHED" -> "E_LIMIT_REACHED"
    [] OTHER -> "E_INVALID_ARGS"

\* default of the max_depth argument of file_permissions
DefaultMaxDepth == 5

\* FilePermissionsTool.handle: the outcome and the effects of one call
permissionsHandle(in, mode, recursive, max_depth, skip_errors, rev) ==
  LET st0 == [perm |-> perm, log |-> <<>>]
      none == [outcome |-> "E_INVALID_ARGS", st |-> st0, results |-> <<>>,
               approved |-> Null, target |-> Null]
  IN IF in.segs = <<>> /\ ~in.abs THEN none
     ELSE IF ~isPathAllowed(in, Null) THEN [none EXCEPT !.outcome = "E_PATH_DENIED"]
     ELSE
       LET approved == resolveUserPath(in, Null, FALSE, FALSE).path
           target == OsResolve(in)
           value == IF mode # <<>> THEN ParseOctal(mode)
                    ELSE IF isWindows THEN NoAttributes ELSE 0
           \* getPermissions(target) after the mutation: fs.stat
           statOk == RealPath(target) \in files
           Finish(run) ==
             [outcome |-> IF run.thrown THEN RethrownKind(run.err)
                          ELSE IF ~statOk THEN "E_INVALID_ARGS" ELSE "ok",
              st |-> run.st, results |-> run.results,
              approved |-> approved, target |-> target]
       IN Finish(IF ~isWindows /\ mode # <<>> /\ ~isValidMode(mode)
                 THEN Thrown(st0, [code |-> "E_INVALID_ARGS", msg |-> "mode"])
                 ELSE IF recursive
                 THEN setPermissionsRecursive(target, value, max_depth, 0, skip_errors, rev, st0)
                 ELSE LET one == setPermissions(target, value, st0)
                      IN IF one.ok THEN Returned(one.st, <<Success(target)>>)
                         ELSE Thrown(st0, ChmodError))


(***************************************************************************)
(* Inputs and initial file system.                                         *)
(***************************************************************************)
Platforms == {"linux", "darwin", "win32"}

In(abs, segs) == [abs |-> abs, segs |-> segs, form |-> "plain", pad |-> 0]

InNone == In(FALSE, <<>>)                                         \* "" / undefined
InNotesTodo == In(FALSE, <<"notes", "todo">>)                     \* notes/todo
InEscape == In(FALSE, <<"dotdot", "dotdot", "etc", "passwd">>)    \* ../../etc/passwd
InUpNotes == In(FALSE, <<"dotdot", "notes">>)                     \* ../notes
InAbsEtc == In(TRUE, <<"etc", "passwd">>)                         \* /etc/passwd
InAbsHome == In(TRUE, <<"home", "alice">>)                        \* /home/alice
InLnk == In(FALSE, <<"lnk">>)                                     \* lnk
InAlice2 == In(TRUE, <<"home", "alice2", "f">>)                   \* /home/alice2/f
InUpper == In(TRUE, <<"home", "Alice", "notes">>)                 \* /home/Alice/notes
InProj == In(FALSE, <<"proj">>)                                   \* proj
InAbsProj == In(TRUE, <<"home", "alice", "proj">>)                \* /home/alice/proj
InProjectRoot == In(TRUE, <<"Users", "xueyuheng", "research", "mcp", "f">>)
InUnc == [abs |-> FALSE, segs |-> <<"unc">>, form |-> "unc", pad |-> 0]
InLong == [abs |-> FALSE, segs |-> <<"longp">>, form |-> "long", pad |-> 0]
InHuge == [abs |-> FALSE, segs |-> <<"f">>, form |-> "plain", pad |-> 40000]

GuardInputs == {InNone, InNotesTodo, InEscape, InUpNotes, InAbsEtc, InAbsHome, InLnk,
                InAlice2, InUpper, InProjectRoot, InUnc, InLong, InHuge}
WorkingDirs == {Null, Home, Home \o <<"proj">>, <<"srv", "app">>}

LinkSite == Home \o <<"lnk">>
LinkTargets == {<<"etc", "passwd">>, <<"etc">>, Home \o <<"notes">>}

BaseFiles ==
  { <<>>, <<"home">>, Home, Home \o <<"notes">>, Home \o <<"notes", "todo">>,
    Home \o <<"proj">>, <<"etc">>, <<"etc", "passwd">>,
    <<"srv">>, <<"srv", "app">>, <<"srv", "app", "proj">> }

\* shapes of the tree below /home/alice/proj
TreeShapes ==
  { {},
    { <<"a">>, <<"s">> },
    { <<"a">>, <<"a", "b">>, <<"s">> },
    { <<"a">>, <<"a", "b">>, <<"a", "b", "c">> } }

AllPaths == BaseFiles \cup { Home \o <<"proj">> \o t : t \in UNION TreeShapes }

\* 0o644
InitialMode == 420
InitPermBits == [p \in AllPaths |-> InitialMode]

NoGuardCall == [op |-> "none", input |-> InNone, workingDir |-> Null,
                result |-> Fail("none"), candidate |-> Fail("none"), wasLink |-> FALSE,
                realTarget |-> Null]
NoPermCall == [n |-> 0, input |-> InNone, recursive |-> FALSE, maxDepth |-> 0,
               skipErrors |-> FALSE, outcome |-> "none", approved |-> Null,
               target |-> Null, log |-> <<>>, results |-> <<>>, before |-> InitPermBits,
               treeDepth |-> 0, clean |-> FALSE, listing |-> <<>>]

NoResult == Fail("none")
NoResolveCall == [input |-> InNone, workingDir |-> Null, allowUNC |-> FALSE,
                  allowLongPath |-> FALSE, candidate |-> NoResult, result |-> NoResult,
                  fs |-> <<{}, {}>>]

NoAssertCall == [called |-> FALSE, absPath |-> Null, allowSymlinks |-> FALSE,
                 strictMode |-> TRUE, wasLink |-> FALSE, result |-> NoResult]

GuardIdle ==
  /\ guardCall = NoGuardCall /\ resolveCall = NoResolveCall /\ resolveRepeat = NoResult
  /\ assertCall = NoAssertCall
CmdIdle == spawned = <<>> /\ cmdLog = <<>> /\ sudoers = FALSE /\ evalLog = <<>>
\* a file with no attribute set
PlainFile == [readonly |-> FALSE, hidden |-> FALSE, system |-> FALSE]
NoWinCall == [called |-> FALSE, request |-> <<>>, failing |-> {}, thrown |-> FALSE,
              operations |-> <<>>]

PermIdle ==
  /\ perm = InitPermBits /\ chmodDenied = {} /\ permCall = NoPermCall
  /\ winFile = PlainFile /\ winCall = NoWinCall

\* the workspace paths a caller names: two absolute directories and one
\* relative to process.cwd(); the empty string stands for a missing argument
WorkspacePaths == { "/home/alice/ws", "/srv/ws", "rel/ws" }
NoPath == ""
\* JavaScript null, as the value of a field that otherwise holds a path string
WsNull == "<null>"
\* what the file system holds at a workspace path: nothing below a writable
\* parent, nothing below a parent that refuses mkdir, a directory the process
\* may read and write, a directory it may not
DiskStates == { "missing", "uncreatable", "dir", "noaccess" }
NoWsCall == [operation |-> "none", workspace_path |-> NoPath, status |-> "none",
             current |-> WsNull]
WsIdle ==
  /\ tempWorkspace = WsNull /\ defaultWorkspace = WsNull /\ wsCall = NoWsCall
  /\ wsDisk = [p \in WorkspacePaths |-> "missing"]

\* the directory the file_watch calls of the model observe, and the objects
\* the environment creates, writes and deletes below it
ProjDir == Home \o <<"proj">>
WatchPaths == { ProjDir \o <<"a">>, ProjDir \o <<"a", "f">>, ProjDir \o <<"dotgit">> }
RawTypes == {"rename", "change"}
RawKeys == RawTypes \X WatchPaths

\* options.maxDepth || 10, options.debounceMs || 100
DefaultWatchDepth == 10
DefaultDebounceMs == 100

\* the fields of a CrossPlatformWatcher after its constructor; no file_watch
\* call made
EmptyMap == [k \in {} |-> 0]
NoSessionCall == [n |-> 0, op |-> "none", outcome |-> "none"]
WatchIdle ==
  /\ sessionCall = NoSessionCall
  /\ watchPc = "idle"
  /\ watchPath = Null
  /\ wOptions = [recursive |-> TRUE, maxDepth |-> DefaultWatchDepth,
                 debounceMs |-> DefaultDebounceMs, max_depth |-> DefaultWatchDepth]
  /\ isActive = FALSE
  /\ watchers = EmptyMap
  /\ osHandles = <<>>
  /\ debounceTimers = EmptyMap
  /\ timers = {}
  /\ stats = [watchersCount |-> 0, eventsCount |-> 0, started |-> FALSE]
  /\ tasks = EmptyMap
  /\ emitted = EmptyMap
  /\ activeWatchers = {}
  /\ touches = 0
  /\ raws = [k \in RawKeys |-> 0]
  /\ bursts = [k \in RawKeys |-> 0]
  /\ unflushed = [k \in RawKeys |-> FALSE]

(***************************************************************************)
(* The path guard as called by the tools.                                  *)
(***************************************************************************)
GuardObservation(op, in, wd, res) ==
  LET abs == resolveUserPath(in, wd, FALSE, FALSE)
  IN [op |-> op, input |-> in, workingDir |-> wd, result |-> res, candidate |-> abs,
      wasLink |-> abs.ok /\ existsSync(abs.path) /\ isSymbolicLink(abs.path),
      realTarget |-> IF abs.ok THEN RealPath(abs.path) ELSE Null]

ResolveAndAssert(in, wd) ==
  /\ guardCall' = GuardObservation("resolveAndAssert", in, wd, resolveAndAssert(in, wd))
  /\ UNCHANGED <<wsVars, envVars, resolveCall, resolveRepeat, assertCall, cmdVars, permVars, watchVars>>

IsPathAllowed(in, wd) ==
  /\ guardCall' = GuardObservation("isPathAllowed", in, wd,
                     IF isPathAllowed(in, wd)
                     THEN Ok(resolveUserPath(in, wd, FALSE, FALSE).path)
                     ELSE Fail("false"))
  /\ UNCHANGED <<wsVars, envVars, resolveCall, resolveRepeat, assertCall, cmdVars, permVars, watchVars>>

\* the environment creates or replaces the link /home/alice/lnk
MakeLink(t) ==
  /\ links' = {[at |-> LinkSite, to |-> t]}
  /\ UNCHANGED <<wsVars, platform, cwd, files, guardVars, cmdVars, permVars, watchVars>>

RemoveLink ==
  /\ links # {}
  /\ links' = {}
  /\ UNCHANGED <<wsVars, platform, cwd, files, guardVars, cmdVars, permVars, watchVars>>

\* the environment deletes or re-creates /etc/passwd (a link to it dangles)
ToggleFile ==
  /\ files' = IF <<"etc", "passwd">> \in files
              THEN files \ {<<"etc", "passwd">>} ELSE files \cup {<<"etc", "passwd">>}
  /\ UNCHANGED <<wsVars, platform, cwd, links, guardVars, cmdVars, permVars, watchVars>>

InitGuard ==
  /\ platform \in Platforms
  /\ cwd = Home
  /\ links = {}
  /\ files = BaseFiles
  /\ GuardIdle /\ CmdIdle /\ PermIdle /\ WatchIdle /\ WsIdle

NextGuard ==
  \/ \E in \in GuardInputs, wd \in WorkingDirs : ResolveAndAssert(in, wd)
  \/ \E in \in GuardInputs, wd \in WorkingDirs : IsPathAllowed(in, wd)
  \/ \E t \in LinkTargets : MakeLink(t)
  \/ RemoveLink
  \/ ToggleFile

SpecGuard == InitGuard /\ [][NextGuard]_vars


(***************************************************************************)
(* Properties of the path guard.                                           *)
(***************************************************************************)
\* two names denote the same directory entry on the active platform
SameName(x, y) ==
  IF isWindows THEN ToLowerCase(CharsOf[x]) = ToLowerCase(CharsOf[y]) ELSE x = y

\* p is root or a descendant of root
Within(root, p) ==
  /\ p # Null
  /\ Len(root) <= Len(p)
  /\ \A i \in 1..Len(root) : SameName(root[i], p[i])

GuardAccepted == guardCall.op # "none" /\ guardCall.result.ok

\* the confinement root the claim C1 names: the working root when one is
\* supplied, otherwise the home directory
ClaimedRoot == IF guardCall.workingDir # Null THEN guardCall.workingDir ELSE Home

EscapeDenied ==
  (guardCall.op # "none" /\ guardCall.input = InEscape /\ guardCall.workingDir = Home)
    => ~guardCall.result.ok

MaxCalls == 2

Commands == {CmdRmRf, CmdLs, CmdPasswd, CmdSudoRm, CmdRmdirWin, CmdFormatWin}
CwdArgs == {InNone, InAbsHome, InAbsEtc}

\* the verdicts of the commands explored, under the options of the tool
PolicyOf ==
  [pf \in Platforms |-> [c \in Commands |-> evaluateVerdict(pf, c, FALSE, FALSE, FALSE)]]

\* the level the policy assigns to a command on the active platform
Classify(command) == PolicyOf[platform][command].level

\* CommandExecutionTool.handle without the check of the working directory
commandHandle_NoCwdCheck(command, cwdArg, confirm, execOk) ==
  LET policy == evaluate(command, FALSE, FALSE, FALSE)
  IN IF LevelOf(policy) = "deny"
     THEN [outcome |-> "E_DANGEROUS_CMD", reason |-> ReasonOf(policy), exec |-> FALSE]
     ELSE IF LevelOf(policy) = "warn" /\ ~confirm
     THEN [outcome |-> "need_confirm", reason |-> ReasonOf(policy), exec |-> FALSE]
     ELSE [outcome |-> IF execOk THEN "ok" ELSE "error", reason |-> "none", exec |-> TRUE]

\* CommandExecutionTool.handle: outcome of one call, and whether it reaches
\* execAsync(command)
commandHandle(command, cwdArg, confirm, execOk) ==
  IF cwdArg # InNone /\ ~isPathAllowed(cwdArg, Null)
  THEN [outcome |-> "cwd_denied", reason |-> "none", exec |-> FALSE]
  ELSE
    LET policy == evaluate(command, FALSE, FALSE, FALSE)
    IN IF LevelOf(policy) = "deny"
       THEN [outcome |-> "E_DANGEROUS_CMD", reason |-> ReasonOf(policy), exec |-> FALSE]
       ELSE IF LevelOf(policy) = "warn" /\ ~confirm
       THEN [outcome |-> "need_confirm", reason |-> ReasonOf(policy), exec |-> FALSE]
       ELSE [outcome |-> IF execOk THEN "ok" ELSE "error", reason |-> "none", exec |-> TRUE]

ExecuteCommand(command, cwdArg, confirm, execOk) ==
  /\ Len(cmdLog) < MaxCalls
  /\ LET r == commandHandle(command, cwdArg, confirm, execOk)
     IN /\ spawned' = IF r.exec THEN Append(spawned, command) ELSE spawned
        /\ cmdLog' = Append(cmdLog,
                            [command |-> command, cwd |-> cwdArg, confirm |-> confirm,
                             outcome |-> r.outcome, reason |-> r.reason,
                             before |-> Len(spawned),
                             after |-> IF r.exec THEN Len(spawned) + 1 ELSE Len(spawned)])
  /\ UNCHANGED <<wsVars, envVars, guardVars, permVars, watchVars, sudoers, evalLog>>

InitCmd ==
  /\ platform \in Platforms
  /\ cwd = Home
  /\ links = {}
  /\ files = BaseFiles
  /\ GuardIdle /\ CmdIdle /\ PermIdle /\ WatchIdle /\ WsIdle

NextCmd ==
  \E command \in Commands, cwdArg \in CwdArgs, confirm \in BOOLEAN, execOk \in BOOLEAN :
    ExecuteCommand(command, cwdArg, confirm, execOk)

SpecCmd == InitCmd /\ [][NextCmd]_vars

\* the calls of the log whose working directory passed the guard
Admitted(i) == cmdLog[i].outcome # "cwd_denied"

\* C3: a warn-tier command invoked without confirm returns need_confirm with
\* the matched reason and starts no process; invoked with confirm=true it is
\* executed exactly once.
C3_ConfirmationRoundTrip ==
  \A i \in 1..Len(cmdLog) :
    (Admitted(i) /\ Classify(cmdLog[i].command) = "warn")
      => IF cmdLog[i].confirm
         THEN cmdLog[i].after = cmdLog[i].before + 1
         ELSE /\ cmdLog[i].outcome = "need_confirm"
              /\ cmdLog[i].reason = PolicyOf[platform][cmdLog[i].command].reason
              /\ cmdLog[i].after = cmdLog[i].before

\* C4: a command matching a deny rule is never run, with or without
\* confirm=true; the call reports E_DANGEROUS_CMD.
C4_DenyIsTerminal ==
  /\ \A k \in 1..Len(spawned) : Classify(spawned[k]) # "deny"
  /\ \A i \in 1..Len(cmdLog) :
       (Admitted(i) /\ Classify(cmdLog[i].command) = "deny")
         => cmdLog[i].outcome = "E_DANGEROUS_CMD"

\* C5: a confirmed execution authorises one call only: a later call of the
\* same warn-tier command without confirm returns need_confirm and runs
\* nothing.
C5_VerdictNotCached ==
  \A i \in 1..Len(cmdLog) : \A j \in (i + 1)..Len(cmdLog) :
    ( /\ cmdLog[i].command = cmdLog[j].command
      /\ Classify(cmdLog[j].command) = "warn"
      /\ Admitted(i) /\ cmdLog[i].confirm
      /\ Admitted(j) /\ ~cmdLog[j].confirm )
    => (cmdLog[j].outcome = "need_confirm" /\ cmdLog[j].after = cmdLog[j].before)


(***************************************************************************)
(* file_permissions (tools/filePermissions.js).                            *)
(***************************************************************************)
\* number of file_permissions calls explored
MaxPermCalls == 1

PermInputs == {InProj, InAbsProj, InAbsEtc}
\* "755", and no mode argument
ModeArgs == {<<7, 5, 5>>, <<>>}
MaxDepthArgs == {0, 1, 2, DefaultMaxDepth}
DeniedChoices == {{}, {ProjDir \o <<"a">>}}

\* depth of the deepest object below the directory p (0 when p is empty)
TreeDepth(p) ==
  LET below == { Len(q) - Len(p) : q \in { x \in files : IsPrefix(p, x) } }
  IN IF below = {} THEN 0 ELSE CHOOSE d \in below : \A e \in below : e <= d

FilePermissions(in, mode, recursive, max_depth, skip_errors, rev) ==
  /\ permCall.n < MaxPermCalls
  /\ \E r \in {permissionsHandle(in, mode, recursive, max_depth, skip_errors, rev)} :
        /\ perm' = r.st.perm
        /\ permCall' = [n |-> permCall.n + 1, input |-> in, recursive |-> recursive,
                        maxDepth |-> max_depth, skipErrors |-> skip_errors,
                        outcome |-> r.outcome, approved |-> r.approved,
                        target |-> r.target, log |-> r.st.log, results |-> r.results,
                        before |-> perm,
                        treeDepth |-> IF r.target = Null THEN 0 ELSE TreeDepth(RealPath(r.target)),
                        clean |-> /\ r.target # Null
                                  /\ RealPath(r.target) \in files
                                  /\ isWindows \/ mode = <<>> \/ isValidMode(mode)
                                  /\ \A q \in chmodDenied : ~IsPrefix(RealPath(r.target), q),
                        listing |-> IF r.target # Null /\ IsDirectory(r.target)
                                    THEN Readdir(r.target, rev) ELSE <<>>]
  /\ UNCHANGED <<wsVars, envVars, guardVars, cmdVars, chmodDenied, winFile, winCall, watchVars>>

InitPerm ==
  /\ platform \in {"linux", "win32"}
  /\ cwd \in {Home, <<"srv", "app">>}
  /\ links = {}
  /\ \E t \in TreeShapes : files = BaseFiles \cup { ProjDir \o x : x \in t }
  /\ perm = InitPermBits
  /\ chmodDenied \in DeniedChoices
  /\ permCall = NoPermCall
  /\ winFile = PlainFile /\ winCall = NoWinCall
  /\ GuardIdle /\ CmdIdle /\ WatchIdle /\ WsIdle

NextPerm ==
  \E in \in PermInputs, mode \in ModeArgs, recursive \in BOOLEAN,
     max_depth \in MaxDepthArgs, skip_errors \in BOOLEAN, rev \in BOOLEAN :
    FilePermissions(in, mode, recursive, max_depth, skip_errors, rev)

SpecPerm == InitPerm /\ [][NextPerm]_vars

\* a recursive call that got past the guard, on a target none of whose
\* objects refuses the change, and whose tree is deeper than maxDepth
DeeperThanBound ==
  /\ permCall.n > 0
  /\ permCall.recursive
  /\ permCall.clean
  /\ permCall.treeDepth > permCall.maxDepth

\* the objects at or beyond the depth bound, counted from the target
BelowBound ==
  { q \in AllPaths : /\ IsPrefix(RealPath(permCall.target), q)
                     /\ Len(q) - Len(RealPath(permCall.target)) >= permCall.maxDepth }

\* C6: on a tree deeper than maxDepth a recursive mutation with
\* skipErrors=false fails with E_LIMIT_REACHED and leaves the permissions of
\* every path below maxDepth unmodified.
C6_LimitReachedKind ==
  (DeeperThanBound /\ ~permCall.skipErrors)
    => /\ permCall.outcome = "E_LIMIT_REACHED"
       /\ \A q \in BelowBound : perm[q] = permCall.before[q]

\* C7: on a tree deeper than maxDepth the caller of a recursive mutation never
\* receives a normal result, for skipErrors=false and skipErrors=true alike.
C7_NeverSilentlyTruncated ==
  DeeperThanBound => permCall.outcome # "ok"

\* C10: the permission change is applied to the path the guard approved: the
\* object the chmod / attrib call reaches for the target is the approved
\* absolute path.
C10_AppliedToResolvedPath ==
  (permCall.n > 0 /\ Len(permCall.log) > 0) => permCall.log[1] = permCall.approved


(***************************************************************************)
(* file_watch (tools/fileWatch.js): CrossPlatformWatcher and the tool that *)
(* owns one watcher per call.  The event loop runs one callback at a time: *)
(* an action is one callback, from its start to the next await of file     *)
(* system I/O of every async function it resumes.                          *)
(***************************************************************************)
\* number of file system operations made below the watched root
MaxEvents == 2

WatchInputs == {InAbsProj, InAbsEtc}
WatchDepthArgs == {0, 1}
\* what the watched directory holds when the call is made
WatchShapes == { {}, { <<"a">>, <<"a", "f">> } }

\* platformUtils.supportsRecursiveWatch()
supportsRecursiveWatch == isMacOS \/ isWindows

EventTypeChars ==
  [ rename |-> <<"r","e","n","a","m","e">>, change |-> <<"c","h","a","n","g","e">> ]
\* `${eventType}:${filePath}`
EventKey(eventType, filePath) == EventTypeChars[eventType] \o <<":">> \o Render(filePath)

Contains(s, sub) == \E pos \in 1..(Len(s) + 1) : LitAt(sub, s, pos)
EndsWith(s, suf) == Len(suf) <= Len(s) /\ SubSeq(s, Len(s) - Len(suf) + 1, Len(s)) = suf
Basename(p) == CharsOf[p[Len(p)]]

\* defaultIgnorePatterns: /^\./, /\.tmp$/, /node_modules/, /\.git/, each
\* tested on the basename and on the whole path
shouldIgnorePath(filePath) ==
  \E s \in {Basename(filePath), Render(filePath)} :
    \/ StartsWith(s, <<".">>)
    \/ EndsWith(s, <<".","t","m","p">>)
    \/ Contains(s, <<"n","o","d","e","_","m","o","d","u","l","e","s">>)
    \/ Contains(s, <<".","g","i","t">>)

MapSet(m, k, v) == [x \in DOMAIN m \cup {k} |-> IF x = k THEN v ELSE m[x]]
MapDelete(m, k) == [x \in DOMAIN m \ {k} |-> m[x]]

\* bags of records: element -> number of copies
CountOf(b, x) == IF x \in DOMAIN b THEN b[x] ELSE 0
BagAdd(b, x) == MapSet(b, x, CountOf(b, x) + 1)
BagRemove(b, x) == IF CountOf(b, x) <= 1 THEN MapDelete(b, x) ELSE [b EXCEPT ![x] = @ - 1]

\* the watcher's fields as one record, for the operators below
Watcher ==
  [ watchPc |-> watchPc, options |-> wOptions, isActive |-> isActive, watchers |-> watchers,
    osHandles |-> osHandles, debounceTimers |-> debounceTimers, timers |-> timers,
    stats |-> stats, tasks |-> tasks, emitted |-> emitted, activeWatchers |-> activeWatchers ]

SetWatcher(w) ==
  /\ watchPc' = w.watchPc
  /\ wOptions' = w.options
  /\ isActive' = w.isActive
  /\ watchers' = w.watchers
  /\ osHandles' = w.osHandles
  /\ debounceTimers' = w.debounceTimers
  /\ timers' = w.timers
  /\ stats' = w.stats
  /\ tasks' = w.tasks
  /\ emitted' = w.emitted
  /\ activeWatchers' = w.activeWatchers

\* this.emit(event, ...): afterStop records whether stop() had returned
Emit(w, event, type, path) ==
  [w EXCEPT !.emitted = BagAdd(@, [event |-> event, type |-> type, path |-> path,
                                   afterStop |-> w.watchPc = "done"])]

\* fs.watch(dir, ...) followed by this.watchers.set(dir, watcher) and
\* this.stats.watchersCount++
registerWatcher(w, dir, depth) ==
  [w EXCEPT !.osHandles = Append(@, [dir |-> dir, depth |-> depth, native |-> FALSE,
                                     open |-> TRUE]),
            !.watchers = MapSet(@, dir, Len(w.osHandles) + 1),
            !.stats.watchersCount = @ + 1]

\* processFileEvent, delete branch: the tracked watcher of a deleted path
closeTracked(w, p) ==
  IF p \in DOMAIN w.watchers
  THEN [w EXCEPT !.osHandles[w.watchers[p]].open = FALSE,
                 !.watchers = MapDelete(@, p),
                 !.stats.watchersCount = @ - 1]
  ELSE w

Frame(fn, path, depth, pc, entries) ==
  [fn |-> fn, path |-> path, depth |-> depth, pc |-> pc, entries |-> entries]

\* start(), after the walk: emit 'ready'; watchPathEnhanced then arms the
\* duration timer
startReady(w) == [Emit(w, "ready", "none", Null) EXCEPT !.watchPc = "armed"]

RECURSIVE Return(_, _)
RECURSIVE NextEntry(_, _)
\* the call on top of the stack returns: its caller runs on to its next
\* await of file system I/O
Return(stack, w) ==
  LET rest == Tail(stack)
  IN IF rest = <<>> THEN [stack |-> <<>>, w |-> w]
     ELSE IF rest[1].fn = "start" THEN [stack |-> <<>>, w |-> startReady(w)]
     ELSE IF rest[1].fn = "hpnd" THEN Return(rest, w)
     ELSE NextEntry(<<[rest[1] EXCEPT !.entries = Tail(@)]>> \o Tail(rest), w)

\* setupWatchersRecursively, the loop over the entries: await stat of the next
\* entry, or return when none is left
NextEntry(stack, w) ==
  IF stack[1].entries = <<>> THEN Return(stack, w)
  ELSE [stack |-> <<[stack[1] EXCEPT !.pc = "entry"]>> \o Tail(stack), w |-> w]

\* a call of setupWatchersRecursively(dir, depth) by the top of the stack:
\* the depth test, then the await of stat(dir)
CallSetup(stack, w, dir, depth) ==
  IF depth >= w.options.maxDepth
  THEN Return(<<Frame("setup", dir, depth, "return", <<>>)>> \o stack, w)
  ELSE [stack |-> <<Frame("setup", dir, depth, "stat", <<>>)>> \o stack, w |-> w]

\* the file system answers the I/O the top of the stack awaits
Resume(stack, w, rev) ==
  LET f == stack[1]
  IN CASE f.fn = "setup" /\ f.pc = "stat" ->
            IF ~existsSync(f.path) THEN Return(stack, Emit(w, "error", "none", f.path))
            ELSE IF ~IsDirectory(f.path) \/ shouldIgnorePath(f.path) THEN Return(stack, w)
            ELSE LET w1 == registerWatcher(w, f.path, f.depth)
                 IN IF w.options.recursive
                    THEN [stack |-> <<[f EXCEPT !.pc = "readdir"]>> \o Tail(stack), w |-> w1]
                    ELSE Return(stack, w1)
       [] f.fn = "setup" /\ f.pc = "readdir" ->
            IF ~IsDirectory(f.path) THEN Return(stack, Emit(w, "error", "none", f.path))
            ELSE NextEntry(<<[f EXCEPT !.entries = Readdir(f.path, rev)]>> \o Tail(stack), w)
       [] f.fn = "setup" /\ f.pc = "entry" ->
            LET entryPath == f.path \o <<f.entries[1]>>
            IN IF IsDirectory(entryPath) THEN CallSetup(stack, w, entryPath, f.depth + 1)
               ELSE NextEntry(<<[f EXCEPT !.entries = Tail(@)]>> \o Tail(stack), w)
       [] f.fn = "hpnd" ->
            IF IsDirectory(f.path) /\ f.path \notin DOMAIN w.watchers
            THEN CallSetup(stack, w, f.path, f.depth + 1)
            ELSE Return(stack, w)
       [] f.fn = "flush" ->
            [stack |-> <<>>,
             w |-> IF existsSync(f.path) THEN Emit(w, "change", "create", f.path)
                   ELSE Emit(closeTracked(w, f.path), "change", "delete", f.path)]

\* the timer handleFileEvent schedules; its id is fresh among the live timers
NewTimerId(live) ==
  IF live = {} THEN 1 ELSE 1 + CHOOSE n \in {t.id : t \in live} : \A t \in live : t.id <= n

\* handleFileEvent without the clearTimeout of the pending timer
handleFileEvent_NoClear(eventType, filePath, w) ==
  IF shouldIgnorePath(filePath) THEN w
  ELSE LET eventKey == EventKey(eventType, filePath)
           id == NewTimerId(w.timers)
       IN [w EXCEPT !.timers = w.timers \cup {[id |-> id, eventType |-> eventType,
                                               filePath |-> filePath]},
                    !.debounceTimers = MapSet(@, eventKey, id)]

handleFileEvent(eventType, filePath, w) ==
  IF shouldIgnorePath(filePath) THEN w
  ELSE LET eventKey == EventKey(eventType, filePath)
           live == IF eventKey \in DOMAIN w.debounceTimers
                   THEN { t \in w.timers : t.id # w.debounceTimers[eventKey] }
                   ELSE w.timers
           id == NewTimerId(live)
       IN [w EXCEPT !.timers = live \cup {[id |-> id, eventType |-> eventType,
                                           filePath |-> filePath]},
                    !.debounceTimers = MapSet(@, eventKey, id)]

\* the callback fs.watch was given, for one raw event on one handle
watchCallback(h, eventType, fullPath, w) ==
  LET w1 == handleFileEvent(eventType, fullPath, w)
  IN IF ~h.native /\ eventType = "rename"
     THEN [w1 EXCEPT !.tasks = BagAdd(@, <<Frame("hpnd", fullPath, h.depth, "stat", <<>>)>>)]
     ELSE w1

\* the raw event reaches the handle: a plain handle reports the entries of
\* its directory, a recursive one everything below
Covers(h, p) ==
  /\ h.open
  /\ IF h.native THEN IsPrefix(h.dir, p) /\ p # h.dir ELSE h.dir = SubSeq(p, 1, Len(p) - 1)

RECURSIVE Callbacks(_, _, _, _)
Callbacks(i, eventType, p, w) ==
  IF i > Len(w.osHandles) THEN w
  ELSE Callbacks(i + 1, eventType, p,
                 IF Covers(w.osHandles[i], p)
                 THEN watchCallback(w.osHandles[i], eventType, p, w) ELSE w)

\* processFileEvent delivering the raw event type of a 'change' as it came
processFileEvent_RawType(eventType, filePath, w) ==
  LET w1 == [w EXCEPT !.stats.eventsCount = @ + 1]
  IN IF eventType = "rename"
     THEN [w1 EXCEPT !.tasks = BagAdd(@, <<Frame("flush", filePath, 0, "access", <<>>)>>)]
     ELSE Emit(w1, "change", eventType, filePath)

\* processFileEvent up to its first await: a 'rename' awaits fs.access, a
\* 'change' is emitted as 'modify' at once
processFileEvent(eventType, filePath, w) ==
  LET w1 == [w EXCEPT !.stats.eventsCount = @ + 1]
  IN IF eventType = "rename"
     THEN [w1 EXCEPT !.tasks = BagAdd(@, <<Frame("flush", filePath, 0, "access", <<>>)>>)]
     ELSE Emit(w1, "change", "modify", filePath)

\* CrossPlatformWatcher.stop
stop(w) ==
  IF ~w.isActive THEN w
  ELSE LET tracked == { w.watchers[d] : d \in DOMAIN w.watchers }
           cleared == { w.debounceTimers[k] : k \in DOMAIN w.debounceTimers }
           w1 == [w EXCEPT !.isActive = FALSE,
                           !.osHandles = [i \in 1..Len(w.osHandles) |->
                                            IF i \in tracked
                                            THEN [w.osHandles[i] EXCEPT !.open = FALSE]
                                            ELSE w.osHandles[i]],
                           !.watchers = EmptyMap,
                           !.timers = { t \in w.timers : t.id \notin cleared },
                           !.debounceTimers = EmptyMap]
       IN Emit(w1, "stopped", "none", Null)

\* CrossPlatformWatcher.start up to its first await of file system I/O;
\* watchThrows: fs.watch on the root throws (EMFILE, ENOSPC, EPERM), which the
\* native branch lets through to the catch of start and of watchPathEnhanced
start(root, w, watchThrows) ==
  LET w1 == [w EXCEPT !.isActive = TRUE, !.stats.started = TRUE]
  IN IF supportsRecursiveWatch /\ w.options.recursive
     THEN IF watchThrows THEN [w1 EXCEPT !.isActive = FALSE, !.watchPc = "failed"]
          ELSE
          startReady([w1 EXCEPT !.osHandles = Append(@, [dir |-> root, depth |-> 0,
                                                        native |-> TRUE, open |-> TRUE]),
                                !.watchers = MapSet(@, root, Len(w.osHandles) + 1),
                                !.stats.watchersCount = 1])
     ELSE LET r == CallSetup(<<Frame("start", root, 0, "await", <<>>)>>, w1, root, 0)
          IN [r.w EXCEPT !.tasks = IF r.stack = <<>> THEN @ ELSE BagAdd(@, r.stack)]

\* FileWatchTool.handle and watchPathEnhanced, up to the await of start()
StartWatch(in, recursive, max_depth, watchThrows) ==
  /\ watchPc = "idle"
  /\ IF ~isPathAllowed(in, Null)
     THEN /\ watchPc' = "rejected"
          /\ UNCHANGED <<watchPath, wOptions, isActive, watchers, osHandles, debounceTimers,
                         timers, stats, tasks, emitted, activeWatchers>>
     ELSE LET root == OsResolve(in)
              w0 == [Watcher EXCEPT
                       !.watchPc = "starting",
                       !.options = [recursive |-> recursive,
                                    maxDepth |-> IF max_depth = 0 THEN DefaultWatchDepth
                                                 ELSE max_depth,
                                    debounceMs |-> DefaultDebounceMs,
                                    \* the argument as the caller gave it
                                    max_depth |-> max_depth],
                       !.activeWatchers = @ \cup {root}]
          IN /\ watchPath' = root
             /\ SetWatcher(start(root, w0, watchThrows))
  /\ UNCHANGED <<wsVars, envVars, guardVars, cmdVars, permVars, sessionCall, touches, raws, bursts, unflushed>>

\* the file system completes the I/O an async call awaits
TaskStep(task, rev) ==
  /\ task \in DOMAIN tasks
  /\ LET r == Resume(task, Watcher, rev)
         others == BagRemove(tasks, task)
     IN SetWatcher([r.w EXCEPT !.tasks = IF r.stack = <<>> THEN others
                                          ELSE BagAdd(others, r.stack)])
  /\ UNCHANGED <<wsVars, envVars, guardVars, cmdVars, permVars, sessionCall, watchPath, touches, raws, bursts, unflushed>>

\* a debounce timer expires: the callback handleFileEvent gave setTimeout
DebounceFire(t) ==
  /\ t \in timers
  /\ LET w1 == [Watcher EXCEPT
                  !.timers = @ \ {t},
                  !.debounceTimers = MapDelete(@, EventKey(t.eventType, t.filePath))]
     IN SetWatcher(processFileEvent(t.eventType, t.filePath, w1))
  /\ unflushed' = [unflushed EXCEPT ![<<t.eventType, t.filePath>>] = FALSE]
  /\ UNCHANGED <<wsVars, envVars, guardVars, cmdVars, permVars, sessionCall, watchPath, touches, raws, bursts>>

\* the duration timer of watchPathEnhanced expires: stop() and the result
DurationElapsed ==
  /\ watchPc = "armed"
  /\ SetWatcher([stop(Watcher) EXCEPT !.watchPc = "done",
                                      !.activeWatchers = @ \ {watchPath}])
  /\ unflushed' = [k \in RawKeys |-> FALSE]
  /\ UNCHANGED <<wsVars, envVars, guardVars, cmdVars, permVars, sessionCall, watchPath, touches, raws, bursts>>

Parent(p) == SubSeq(p, 1, Len(p) - 1)
TouchEffects == {"create", "delete", "write"}

\* the environment creates, deletes or writes an object below the watched
\* root; every open handle that covers it runs its callback
Touch(p, effect) ==
  /\ watchPc \in {"starting", "armed", "done"}
  /\ touches < MaxEvents
  /\ CASE effect = "create" -> p \notin files /\ IsDirectory(Parent(p))
       [] effect = "delete" -> p \in files /\ \A q \in files : IsPrefix(p, q) => q = p
       [] effect = "write" -> p \in files /\ ~IsDirectory(p)
  /\ files' = CASE effect = "create" -> files \cup {p}
                [] effect = "delete" -> files \ {p}
                [] effect = "write" -> files
  /\ touches' = touches + 1
  /\ LET eventType == IF effect = "write" THEN "change" ELSE "rename"
         raw == Cardinality({ i \in 1..Len(osHandles) : Covers(osHandles[i], p) })
         k == <<eventType, p>>
     IN /\ SetWatcher(Callbacks(1, eventType, p, Watcher))
        /\ raws' = [raws EXCEPT ![k] = @ + raw]
        /\ bursts' = IF raw > 0 /\ ~unflushed[k] THEN [bursts EXCEPT ![k] = @ + 1] ELSE bursts
        /\ unflushed' = IF raw > 0 THEN [unflushed EXCEPT ![k] = TRUE] ELSE unflushed
  /\ UNCHANGED <<wsVars, platform, cwd, links, guardVars, cmdVars, permVars, sessionCall, watchPath>>

InitWatch ==
  /\ platform \in {"linux", "darwin"}
  /\ cwd = Home
  /\ links = {}
  /\ \E t \in WatchShapes : files = BaseFiles \cup { ProjDir \o x : x \in t }
  /\ GuardIdle /\ CmdIdle /\ PermIdle /\ WatchIdle /\ WsIdle

NextWatch ==
  \/ \E in \in WatchInputs, recursive \in BOOLEAN, max_depth \in WatchDepthArgs,
        watchThrows \in BOOLEAN :
       StartWatch(in, recursive, max_depth, watchThrows)
  \/ \E task \in DOMAIN tasks, rev \in BOOLEAN : TaskStep(task, rev)
  \/ \E t \in timers : DebounceFire(t)
  \/ DurationElapsed
  \/ \E p \in WatchPaths, effect \in TouchEffects : Touch(p, effect)

SpecWatch == InitWatch /\ [][NextWatch]_vars

\* stop() has returned on the session
Stopped == watchPc = "done"
ChangesAfterStop == { e \in DOMAIN emitted : e.event = "change" /\ e.afterStop }

\* C8: once stop() has returned the watchers map is empty, no debounce timer
\* is pending and no change event is delivered any more, whatever callbacks,
\* flushes and handle registrations were in flight when stop() ran.
C8_StopIsFinal ==
  Stopped => /\ DOMAIN watchers = {}
             /\ timers = {}
             /\ ChangesAfterStop = {}

\* the live timers of a key, the flushes of it that await fs.access, and the
\* change events delivered for it
PendingTimers(k) ==
  { t \in timers : EventKey(t.eventType, t.filePath) = EventKey(k[1], k[2]) }
InFlight(k) ==
  IF k[1] = "rename" THEN CountOf(tasks, <<Frame("flush", k[2], 0, "access", <<>>)>>) ELSE 0
ChangeTypes(eventType) == IF eventType = "rename" THEN {"create", "delete"} ELSE {"modify"}
RECURSIVE SumOf(_, _)
SumOf(b, S) ==
  IF S = {} THEN 0 ELSE LET x == CHOOSE x \in S : TRUE IN b[x] + SumOf(b, S \ {x})
Delivered(k) ==
  SumOf(emitted, { e \in DOMAIN emitted :
                     e.event = "change" /\ e.path = k[2] /\ e.type \in ChangeTypes(k[1]) })
\* handleFileEvent forms a key for the raw events of this (eventType, path)
Keyed(k) == ~shouldIgnorePath(k[2])

\* C9: a key never has two pending flush timers, and every burst of raw events
\* of a key is delivered once: while the session runs, the bursts begun are
\* the change events delivered plus the one burst still pending and the
\* flushes awaiting the file system; never more deliveries than bursts.
C9_DebounceCoalesces ==
  \A k \in RawKeys :
    Keyed(k) => /\ Cardinality(PendingTimers(k)) <= 1
                /\ Delivered(k) <= bursts[k]
                /\ ~Stopped => bursts[k] = Delivered(k) + Cardinality(PendingTimers(k))
                                             + InFlight(k)

\* two raw events of one key made one burst, and one change event came of it
C9_Witness ==
  \E k \in RawKeys :
    /\ Keyed(k) /\ ~Stopped
    /\ raws[k] = 2 /\ bursts[k] = 1
    /\ Delivered(k) = 1 /\ PendingTimers(k) = {} /\ InFlight(k) = 0

(***************************************************************************)
(* Further properties of the path guard.                                   *)
(***************************************************************************)
\* a resolveAndAssert call on a non-empty path string that was rejected
GuardRejected ==
  /\ guardCall.op = "resolveAndAssert"
  /\ guardCall.input # InNone
  /\ ~guardCall.result.ok

\* C11: every rejection of the guard reaches the caller as E_PATH_DENIED,
\* whatever made the guard reject (confinement, symbolic link, oversized path,
\* UNC or long-path form), and carries no path.
C11_RejectsAsPathDenied ==
  GuardRejected => /\ guardCall.result.code = "E_PATH_DENIED"
                   /\ guardCall.result.path = Null


(***************************************************************************)
(* The command classifier on its own (lib/pathUtils.js evaluate).          *)
(***************************************************************************)
\* number of evaluate calls explored
MaxEvals == 2

ClassifyCommands ==
  {CmdRmRf, CmdSudoSystemctl, CmdChmod, CmdLs, CmdCatFile, CmdSudoRm, CmdPasswd, CmdEmpty}

\* the verdict of every command explored, per platform and per
\* <<allowSudo, checkSudoConfig, what checkSudoConfig() finds>>, tabulated
\* once (f @@ <<>> is f as an explicit table)
VerdictOf ==
  [pf \in Platforms |->
    [c \in ClassifyCommands |->
      [o \in BOOLEAN \X BOOLEAN \X BOOLEAN |->
        evaluateVerdict(pf, c, o[1], o[2], o[3])] @@ <<>>] @@ <<>>] @@ <<>>

\* one call of evaluate(command, {allowSudo, checkSudoConfig}): `direct` is
\* the level read on the returned value, `level` and `reason` those of the
\* awaited value
Evaluate(command, allowSudo, checkSudo) ==
  /\ Len(evalLog) < MaxEvals
  /\ LET policy == evaluate(command, allowSudo, checkSudo, sudoers)
         verdict == VerdictOf[platform][policy.command][policy.options]
     IN evalLog' = Append(evalLog,
                          [command |-> command, allowSudo |-> allowSudo,
                           checkSudo |-> checkSudo, noPassword |-> sudoers,
                           direct |-> LevelOf(policy),
                           level |-> verdict.level, reason |-> verdict.reason])
  /\ UNCHANGED <<wsVars, envVars, guardVars, spawned, cmdLog, sudoers, permVars, watchVars>>

\* the administrator edits sudoers: `sudo -n true` starts or stops succeeding
ChangeSudoers ==
  /\ sudoers' = ~sudoers
  /\ UNCHANGED <<wsVars, envVars, guardVars, spawned, cmdLog, evalLog, permVars, watchVars>>

InitClassify ==
  /\ platform \in Platforms
  /\ cwd = Home
  /\ links = {}
  /\ files = BaseFiles
  /\ sudoers \in BOOLEAN
  /\ spawned = <<>> /\ cmdLog = <<>> /\ evalLog = <<>>
  /\ GuardIdle /\ PermIdle /\ WatchIdle /\ WsIdle

NextClassify ==
  \/ \E c \in ClassifyCommands, allowSudo \in BOOLEAN, checkSudo \in BOOLEAN :
       Evaluate(c, allowSudo, checkSudo)
  \/ ChangeSudoers

SpecClassify == InitClassify /\ [][NextClassify]_vars

\* two logged evaluations of the same command
SameCommand(i, j) ==
  /\ i \in 1..Len(evalLog) /\ j \in 1..Len(evalLog)
  /\ evalLog[i].command = evalLog[j].command

\* the two evaluations were made with the same options
SameOptions(i, j) ==
  /\ evalLog[i].allowSudo = evalLog[j].allowSudo
  /\ evalLog[i].checkSudo = evalLog[j].checkSudo

\* the call runs checkSudoConfig() and lets its answer decide
ConsultsSudoers(i) == evalLog[i].allowSudo /\ evalLog[i].checkSudo /\ isLinux

\* C12 as stated: two evaluations of the same command on the same platform
\* return the same level, whatever the options, the call history and the
\* state of the machine
C12_SameCommandSameLevel ==
  \A i, j \in 1..Len(evalLog) :
    SameCommand(i, j) => evalLog[i].level = evalLog[j].level

\* C12: two evaluations of the same command on the same platform with the same
\* options return the same level and reason, whatever was evaluated before;
\* the sudo configuration of the machine matters only to a call on Linux made
\* with both allowSudo and checkSudoConfig
C12_SameCommandAndOptionsSameLevel ==
  \A i, j \in 1..Len(evalLog) :
    /\ SameCommand(i, j)
    /\ SameOptions(i, j)
    /\ ConsultsSudoers(i) => evalLog[i].noPassword = evalLog[j].noPassword
    => /\ evalLog[i].level = evalLog[j].level
       /\ evalLog[i].reason = evalLog[j].reason

\* a sudo command evaluated twice with allowSudo only, the sudoers file edited
\* in between
C12_Witness ==
  /\ isLinux
  /\ Len(evalLog) = 2
  /\ evalLog[1].command = CmdSudoRm /\ evalLog[2].command = CmdSudoRm
  /\ evalLog[1].allowSudo /\ evalLog[2].allowSudo
  /\ ~evalLog[1].checkSudo /\ ~evalLog[2].checkSudo
  /\ evalLog[1].noPassword # evalLog[2].noPassword
  /\ evalLog[1].level = "allow"


Levels == {"allow", "warn", "deny"}

\* C13: every evaluation, of any command string, hands its caller a value on
\* which `level` reads as one of allow, warn, deny
C13_LevelReadableOnReturn ==
  \A i \in 1..Len(evalLog) :
    /\ evalLog[i].level \in Levels
    /\ evalLog[i].direct \in Levels


\* the awaited verdict of every command string has a level among allow, warn,
\* deny
AwaitedLevelIsALevel == \A i \in 1..Len(evalLog) : evalLog[i].level \in Levels


\* some pattern of the list matches the command
MatchesAny(patterns, command) ==
  \E k \in 1..Len(patterns) : Test(patterns[k], Trim(command))

\* which of the POSIX rule sets each command explored matches, tabulated once
UnixRulesOf ==
  [c \in ClassifyCommands |->
    [deny |-> MatchesAny(UNIX_DENY, c), warn |-> MatchesAny(UNIX_WARN, c)]] @@ <<>>

\* an evaluation on a POSIX platform with the default options
PosixDefault(i) ==
  /\ i \in 1..Len(evalLog)
  /\ ~isWindows
  /\ ~evalLog[i].allowSudo /\ ~evalLog[i].checkSudo

WarnExamples == {CmdRmRf, CmdSudoSystemctl, CmdChmod}
AllowExamples == {CmdLs, CmdCatFile}

\* C14 as stated: on a POSIX platform with default options a command matching
\* a warn rule and no deny rule is warn, and any command matching neither rule
\* set is allow
C14_LevelFollowsRuleSets ==
  \A i \in 1..Len(evalLog) :
    PosixDefault(i) =>
      LET m == UnixRulesOf[evalLog[i].command]
      IN /\ (m.warn /\ ~m.deny) => evalLog[i].level = "warn"
         /\ (~m.warn /\ ~m.deny) => evalLog[i].level = "allow"

\* C14: on a POSIX platform with default options a command matching a warn
\* rule and no deny rule is warn (rm -rf /tmp/build, sudo systemctl stop nginx,
\* chmod 777 file.txt), and a command that is not blank and matches neither
\* rule set is allow (ls -la, cat file.txt)
C14_NonBlankLevelFollowsRuleSets ==
  \A i \in 1..Len(evalLog) :
    PosixDefault(i) =>
      LET c == evalLog[i].command
          m == UnixRulesOf[c]
      IN /\ (m.warn /\ ~m.deny) => evalLog[i].level = "warn"
         /\ (~m.warn /\ ~m.deny /\ Trim(c) # <<>>) => evalLog[i].level = "allow"
         /\ c \in WarnExamples => evalLog[i].level = "warn"
         /\ c \in AllowExamples => evalLog[i].level = "allow"

\* a warn example and an allow example evaluated on a POSIX platform with the
\* default options
C14_Witness ==
  /\ Len(evalLog) = 2
  /\ PosixDefault(1) /\ PosixDefault(2)
  /\ evalLog[1].command = CmdRmRf /\ evalLog[1].level = "warn"
  /\ evalLog[2].command = CmdCatFile /\ evalLog[2].level = "allow"


(***************************************************************************)
(* Path resolution called directly (lib/pathUtils.js): resolveUserPath     *)
(* with its options, followed by assertInHome.                             *)
(***************************************************************************)
ResolveInputs == {InNone, InNotesTodo, InEscape, InLnk, InUnc, InLong, InHuge, InAbsHome,
                  InProjectRoot}
ResolveDirs == {Null, Home \o <<"proj">>}

\* resolveUserPath(input, options) followed by assertInHome(resolved)
confine(abs) == IF ~abs.ok THEN abs ELSE assertInHome(abs.path, FALSE, TRUE)
resolve(in, workingDir, allowUNC, allowLongPath) ==
  confine(resolveUserPath(in, workingDir, allowUNC, allowLongPath))

Resolve(in, wd, allowUNC, allowLongPath) ==
  \E abs \in {resolveUserPath(in, wd, allowUNC, allowLongPath)} :
  \E call \in {[input |-> in, workingDir |-> wd, allowUNC |-> allowUNC,
                allowLongPath |-> allowLongPath,
                candidate |-> abs,
                result |-> confine(abs),
                fs |-> <<links, files>>]} :
    LET sameArguments == /\ resolveCall.result # NoResult
                         /\ [resolveCall EXCEPT !.result = NoResult, !.candidate = NoResult]
                              = [call EXCEPT !.result = NoResult, !.candidate = NoResult]
    IN /\ resolveCall' = call
       /\ resolveRepeat' = IF sameArguments THEN resolveCall.result ELSE NoResult
       /\ UNCHANGED <<wsVars, envVars, guardCall, assertCall, cmdVars, permVars, watchVars>>

InitResolve ==
  /\ platform \in Platforms
  /\ cwd = Home
  /\ links = {}
  /\ files = BaseFiles
  /\ GuardIdle /\ CmdIdle /\ PermIdle /\ WatchIdle /\ WsIdle

NextResolve ==
  \/ \E in \in ResolveInputs, wd \in ResolveDirs, allowUNC \in BOOLEAN, allowLongPath \in BOOLEAN :
       Resolve(in, wd, allowUNC, allowLongPath)
  \/ \E t \in LinkTargets : MakeLink(t)
  \/ RemoveLink
  \/ ToggleFile

SpecResolve == InitResolve /\ [][NextResolve]_vars

\* the last call repeated the call before it on an unchanged file system
Repeated == resolveRepeat # NoResult

InputLength(in) == Len(RenderInput(in)) + in.pad

Resolved == resolveCall.result # NoResult

\* the Windows forms are refused unless their option is set
FormsRefusedUnlessAllowed ==
  /\ (Resolved /\ isWindows /\ resolveCall.input.form = "unc" /\ ~resolveCall.allowUNC)
       => ~resolveCall.result.ok
  /\ (Resolved /\ isWindows /\ resolveCall.input.form = "long" /\ ~resolveCall.allowLongPath)
       => ~resolveCall.result.ok

\* C16: on every platform a path longer than the platform's maximum length is
\* rejected with E_PATH_TOO_LONG, and the UNC and \\?\ forms are rejected
\* unless the option that allows them is set
C16_TooLongRejectedEverywhere ==
  /\ (Resolved /\ resolveCall.input.form = "plain" /\ InputLength(resolveCall.input) > maxLength)
       => resolveCall.result.code = "E_PATH_TOO_LONG"
  /\ FormsRefusedUnlessAllowed

\* the length limit as the code enforces it: on Windows only
TooLongRejectedOnWindows ==
  (Resolved /\ isWindows /\ resolveCall.input.form = "plain"
     /\ InputLength(resolveCall.input) > maxLength)
    => resolveCall.result.code = "E_PATH_TOO_LONG"


(* Further properties of file_permissions. *)
\* the k-th child of the target, in the order readdir listed the children
ChildAt(k) == Append(permCall.target, permCall.listing[k])

\* a recursive call that changed its target directory, whose depth bound
\* covers the whole tree, and whose k-th child refuses the change
ChildFails(k) ==
  /\ permCall.n > 0
  /\ permCall.recursive
  /\ Len(permCall.log) > 0
  /\ permCall.maxDepth > permCall.treeDepth
  /\ k \in 1..Len(permCall.listing)
  /\ ChildAt(k) \in chmodDenied
  /\ \A e \in 1..(k - 1) : ChildAt(e) \notin chmodDenied

Mutated(p) == \E n \in 1..Len(permCall.log) : permCall.log[n] = p
Recorded(p, ok) ==
  \E n \in 1..Len(permCall.results) :
    permCall.results[n].path = p /\ permCall.results[n].success = ok

\* C17: when the change of one child fails, a call with skipErrors=false fails
\* as a whole and changes no sibling listed after that child; a call with
\* skipErrors=true records the failure as the result of that child, visits
\* every sibling listed after it and returns normally
C17_SkipErrorsDecidesAbort ==
  \A k \in 1..Len(permCall.listing) :
    ChildFails(k) =>
      IF permCall.skipErrors
      THEN /\ Recorded(ChildAt(k), FALSE)
           /\ \A e \in (k + 1)..Len(permCall.listing) :
                /\ Recorded(ChildAt(e), ChildAt(e) \notin chmodDenied)
                /\ ChildAt(e) \notin chmodDenied => Mutated(ChildAt(e))
           /\ permCall.outcome = "ok"
      ELSE /\ permCall.outcome \notin {"ok", "none"}
           /\ \A e \in (k + 1)..Len(permCall.listing) :
                /\ ~Mutated(ChildAt(e))
                /\ perm[ChildAt(e)] = permCall.before[ChildAt(e)]

\* the first child listed refuses the change, a sibling follows it, and the
\* call was made with skipErrors=true
C17_Witness ==
  /\ ChildFails(1)
  /\ Len(permCall.listing) = 2
  /\ permCall.skipErrors
  /\ Mutated(ChildAt(2))

\* the same with skipErrors=false
C17_AbortSeen ==
  /\ ChildFails(1)
  /\ Len(permCall.listing) = 2
  /\ ~permCall.skipErrors


(***************************************************************************)
(* The Windows permission adapter (lib/crossPlatformPermissions.js).  A    *)
(* request names, for each attribute, "true", "false" or "undefined", and  *)
(* an acl entry "grant", "deny", "both" or "undefined"; `failing` is the   *)
(* set of operating system commands that fail during the call.             *)
(***************************************************************************)
Attributes == <<"readonly", "hidden", "system">>
WinRequests ==
  [readonly : {"undefined", "true", "false"}, hidden : {"undefined", "true"},
   system : {"undefined", "true"}, acl : {"undefined", "grant", "deny", "both"}]
WinFailures == {{}, {"readonly"}, {"hidden"}, {"icacls"}}

\* WindowsPermissionAdapter.setAclPermissions: its own catch turns a failure
\* into a result; a request with grant never looks at deny
setAclPermissions(acl, failing) ==
  IF "icacls" \in failing
  THEN [operation |-> "acl", success |-> FALSE]
  ELSE [operation |-> IF acl \in {"grant", "both"} THEN "acl_grant" ELSE "acl_deny",
        success |-> TRUE]

\* the attribute steps of WindowsPermissionAdapter.setPermissions, in order:
\* a failing attrib command throws out of the method
RECURSIVE setAttributes(_, _, _, _, _)
setAttributes(todo, request, failing, file, results) ==
  IF todo = <<>> THEN [thrown |-> FALSE, file |-> file, operations |-> results]
  ELSE LET a == Head(todo)
       IN IF request[a] = "undefined"
          THEN setAttributes(Tail(todo), request, failing, file, results)
          ELSE IF a \in failing
          THEN [thrown |-> TRUE, file |-> file, operations |-> <<>>]
          ELSE setAttributes(Tail(todo), request, failing,
                             [file EXCEPT ![a] = (request[a] = "true")],
                             Append(results, [operation |-> a, success |-> TRUE]))

\* WindowsPermissionAdapter.setPermissions(filePath, permissions)
winSetPermissions(request, failing, file) ==
  LET Finish(attrs) ==
        IF attrs.thrown \/ request.acl = "undefined" THEN attrs
        ELSE [attrs EXCEPT !.operations =
                Append(attrs.operations, setAclPermissions(request.acl, failing))]
  IN Finish(setAttributes(Attributes, request, failing, file, <<>>))

WinSetPermissions(request, failing) ==
  /\ isWindows
  /\ \E r \in {winSetPermissions(request, failing, winFile)} :
       /\ winFile' = r.file
       /\ winCall' = [called |-> TRUE, request |-> request, failing |-> failing,
                      thrown |-> r.thrown, operations |-> r.operations]
  /\ UNCHANGED <<wsVars, envVars, guardVars, cmdVars, perm, chmodDenied, permCall, watchVars>>

InitWinPerm ==
  /\ platform = "win32"
  /\ cwd = Home
  /\ links = {}
  /\ files = BaseFiles
  /\ GuardIdle /\ CmdIdle /\ PermIdle /\ WatchIdle /\ WsIdle

NextWinPerm == \E request \in WinRequests, failing \in WinFailures : WinSetPermissions(request, failing)

SpecWinPerm == InitWinPerm /\ [][NextWinPerm]_vars

\* the sub-operations a request asks for
Requested(request) ==
  { a \in {"readonly", "hidden", "system"} : request[a] # "undefined" }
    \cup (IF request.acl \in {"grant", "both"} THEN {"acl_grant"} ELSE {})
    \cup (IF request.acl \in {"deny", "both"} THEN {"acl_deny"} ELSE {})

\* the command a sub-operation runs
CommandOf(op) == IF op \in {"acl_grant", "acl_deny"} THEN "icacls" ELSE op

\* the list returned has an entry for op, with this success value
Listed(op, ok) ==
  \E n \in 1..Len(winCall.operations) :
    /\ winCall.operations[n].success = ok
    /\ \/ winCall.operations[n].operation = op
       \/ ~ok /\ winCall.operations[n].operation = "acl" /\ CommandOf(op) = "icacls"

\* C18: a call returns the list of the sub-operations requested, each with its
\* own success or failure; one whose command fails is in the list with
\* success=false and the others keep their results
C18_EverySubOperationListed ==
  winCall.called =>
    /\ ~winCall.thrown
    /\ \A op \in Requested(winCall.request) :
         Listed(op, CommandOf(op) \notin winCall.failing)

\* a failing icacls command is listed with success=false next to the results
\* of the attribute toggles
AclFailureListed ==
  (winCall.called /\ ~winCall.thrown /\ winCall.request.acl \in {"grant", "deny"})
    => \A op \in Requested(winCall.request) :
         Listed(op, CommandOf(op) \notin winCall.failing)


(* Further properties of file_watch. *)
\* the file_watch call has returned a result, or failed
Completed == watchPc \in {"done", "failed", "rejected"}

OpenHandles == { i \in 1..Len(osHandles) : osHandles[i].open }

\* C19: once the call has completed, by result after the duration timer or by
\* error, its session is not active, is not held in activeWatchers, has no
\* open handle and no pending debounce timer
C19_SessionEndsWithCall ==
  Completed => /\ ~isActive
               /\ activeWatchers = {}
               /\ OpenHandles = {}
               /\ timers = {}

\* the call that ends by its duration timer leaves the registry
RegistryClearedByTimer == watchPc = "done" => activeWatchers = {}

\* the call that ends by an error of start() leaves the registry
RegistryClearedOnError == watchPc = "failed" => activeWatchers = {}

\* no handle is open once the call has completed
HandlesClosedOnCompletion == Completed => OpenHandles = {}

\* no debounce timer is pending and the session is inactive once the call has
\* completed
InactiveOnCompletion == Completed => ~isActive /\ timers = {}


\* a session started with max_depth = 0 on a platform without native
\* recursive watch
StartedAtDepthZero ==
  /\ watchPc \in {"starting", "armed", "done"}
  /\ ~supportsRecursiveWatch
  /\ wOptions.max_depth = 0

\* C20: a watcher started with maxDepth=0 on a platform lacking native
\* recursive watch registers no handle but the one of the root, at start and
\* when a subdirectory is created afterwards
C20_DepthZeroWatchesRootOnly ==
  StartedAtDepthZero =>
    /\ Len(osHandles) <= 1
    /\ \A i \in 1..Len(osHandles) : osHandles[i].dir = watchPath

\* a session started with max_depth = 1 registers the root only
DepthOneWatchesRootOnly ==
  (watchPc \in {"starting", "armed", "done"} /\ ~supportsRecursiveWatch
     /\ wOptions.max_depth = 1)
    => \A i \in 1..Len(osHandles) : osHandles[i].dir = watchPath


(***************************************************************************)
(* The workspace manager (tools/fileWatch.js, class WorkspaceManager): the *)
(* temporary workspace of the session, the persisted default and the       *)
(* workspace_manager tool on top of them.                                  *)
(***************************************************************************)

\* a value JavaScript treats as false in a condition: null or the empty string
Falsy(v) == v \in {WsNull, NoPath}

\* path.join(os.homedir(), '.axlocalop', 'workspace')
fallbackWorkspace == "/home/alice/.axlocalop/workspace"

\* validateWorkspace: a missing directory is created; whatever mkdirSync or
\* accessSync throws is caught and reported as false
validateWorkspace(workspacePath, disk) ==
  IF Falsy(workspacePath) THEN [valid |-> FALSE, disk |-> disk]
  ELSE IF disk[workspacePath] = "missing"
       THEN [valid |-> TRUE, disk |-> [disk EXCEPT ![workspacePath] = "dir"]]
  ELSE [valid |-> disk[workspacePath] = "dir", disk |-> disk]

\* setTempWorkspace: the field is assigned only when the directory validates
setTempWorkspace(workspacePath, temp, disk) ==
  LET v == validateWorkspace(workspacePath, disk)
  IN [returned |-> v.valid, temp |-> IF v.valid THEN workspacePath ELSE temp,
      disk |-> v.disk]

\* setDefaultWorkspace: updateEnvironment('DEFAULT_WORKSPACE', ...) when valid
setDefaultWorkspace(workspacePath, default, disk) ==
  LET v == validateWorkspace(workspacePath, disk)
  IN [returned |-> v.valid, default |-> IF v.valid THEN workspacePath ELSE default,
      disk |-> v.disk]

\* getCurrentWorkspace: the temporary workspace first, then the persisted
\* default, then the fallback below the home directory
getCurrentWorkspace(temp, default) ==
  IF ~Falsy(temp) THEN temp
  ELSE IF ~Falsy(default) THEN default
  ELSE fallbackWorkspace

WsOperations == { "get_current", "set_temp", "set_default", "clear_temp", "status", "rename" }

\* WorkspaceManager.handle: what the call returns or throws and the fields it
\* leaves behind
WsOutcome(status, temp, default, disk) ==
  [status |-> status, temp |-> temp, default |-> default, disk |-> disk]

workspaceHandle(operation, workspace_path, temp, default, disk) ==
  IF operation = "get_current" THEN WsOutcome("ok", temp, default, disk)
  ELSE IF operation = "set_temp"
       THEN IF Falsy(workspace_path) THEN WsOutcome("error", temp, default, disk)
            ELSE LET r == setTempWorkspace(workspace_path, temp, disk)
                 \* the boolean setTempWorkspace returns is dropped
                 IN WsOutcome("ok", r.temp, default, r.disk)
  ELSE IF operation = "set_default"
       THEN IF Falsy(workspace_path) THEN WsOutcome("error", temp, default, disk)
            ELSE LET r == setDefaultWorkspace(workspace_path, default, disk)
                 IN WsOutcome("ok", temp, r.default, r.disk)
  ELSE IF operation = "clear_temp" THEN WsOutcome("ok", WsNull, default, disk)
  \* getStatus answers without a status field
  ELSE IF operation = "status" THEN WsOutcome("none", temp, default, disk)
  ELSE WsOutcome("error", temp, default, disk)

\* one workspace_manager call
WorkspaceManager(operation, workspace_path) ==
  /\ \E r \in {workspaceHandle(operation, workspace_path, tempWorkspace, defaultWorkspace,
                               wsDisk)} :
       /\ tempWorkspace' = r.temp
       /\ defaultWorkspace' = r.default
       /\ wsDisk' = r.disk
       /\ wsCall' = [operation |-> operation, workspace_path |-> workspace_path,
                     status |-> r.status,
                     current |-> getCurrentWorkspace(r.temp, r.default)]
  /\ UNCHANGED <<envVars, guardVars, cmdVars, permVars, watchVars>>

\* the environment creates, removes or re-protects a workspace directory
ChangeDisk(p, state) ==
  /\ wsDisk[p] # state
  /\ wsDisk' = [wsDisk EXCEPT ![p] = state]
  /\ UNCHANGED <<envVars, guardVars, cmdVars, permVars, watchVars, tempWorkspace,
                 defaultWorkspace, wsCall>>

InitWorkspace ==
  /\ platform \in Platforms
  /\ cwd = Home
  /\ links = {}
  /\ files = BaseFiles
  /\ GuardIdle /\ CmdIdle /\ PermIdle /\ WatchIdle
  /\ tempWorkspace = WsNull /\ defaultWorkspace = WsNull /\ wsCall = NoWsCall
  /\ wsDisk \in [WorkspacePaths -> DiskStates]

NextWorkspace ==
  \/ \E operation \in WsOperations, workspace_path \in WorkspacePaths \cup {NoPath} :
       WorkspaceManager(operation, workspace_path)
  \/ \E p \in WorkspacePaths, state \in DiskStates : ChangeDisk(p, state)

SpecWorkspace == InitWorkspace /\ [][NextWorkspace]_vars

\* C21: whenever set_temp returned status ok for workspace_path w, the
\* temporary workspace is w and getCurrentWorkspace() returns w
C21_SetTempOkMeansTempIsSet ==
  (wsCall.operation = "set_temp" /\ wsCall.status = "ok")
    => /\ tempWorkspace = wsCall.workspace_path
       /\ getCurrentWorkspace(tempWorkspace, defaultWorkspace) = wsCall.workspace_path

\* a temporary workspace, once set, is what getCurrentWorkspace() returns
TempWorkspaceHasPriority ==
  ~Falsy(tempWorkspace) => getCurrentWorkspace(tempWorkspace, defaultWorkspace) = tempWorkspace


\* the candidate a call of resolve built: what resolveUserPath returned
Candidate == resolveCall.candidate

\* the base the claim describes: the input itself when absolute, otherwise the
\* input joined to the working root, or to the home directory without one
ExpectedCandidate(in, workingDir) ==
  IF isAbsolute(in) THEN NormalizeFrom(<<>>, in.segs)
  ELSE IF workingDir # Null THEN PathJoin(workingDir, in.segs)
  ELSE PathJoin(Home, in.segs)

\* the input starts with one of the two directories resolveUserPath rewrites
UnderRewrittenRoot(in) ==
  \/ StartsWith(RenderInput(in), Render(projectRoot))
  \/ StartsWith(RenderInput(in), Render(guerrillaPath))

\* C22: an absolute input is the candidate unchanged whatever the working root
\* is; a relative input is joined to the working root when one is supplied and
\* to the home directory otherwise, never to process.cwd()
C22_CandidateConstruction ==
  (Resolved /\ Candidate.ok)
    => Candidate.path = ExpectedCandidate(resolveCall.input, resolveCall.workingDir)

\* the same for every input outside the two rewritten directories
CandidateOutsideRewrittenRoots ==
  (Resolved /\ Candidate.ok /\ ~UnderRewrittenRoot(resolveCall.input))
    => Candidate.path = ExpectedCandidate(resolveCall.input, resolveCall.workingDir)


\* the guard call got as far as the startsWith test of assertInHome: a
\* candidate was built and it was not refused as a symbolic link
ConfinementDecided ==
  /\ guardCall.op # "none"
  /\ guardCall.candidate.ok
  /\ ~(isUnix /\ guardCall.wasLink)

\* C23: the confinement check accepts exactly the root and its strict
\* descendants; /home/alice2/f, which has the root /home/alice as a string
\* prefix only, is denied and the root itself is accepted
C23_ExactlyRootAndDescendants ==
  /\ ConfinementDecided => (guardCall.result.ok <=> Within(Home, guardCall.candidate.path))
  /\ (guardCall.op # "none" /\ guardCall.input = InAlice2) => ~guardCall.result.ok
  /\ (guardCall.op # "none" /\ guardCall.input = InAbsHome) => guardCall.result.ok

\* /home/alice2/f has been refused by the confinement check
C23_Witness ==
  /\ guardCall.op = "resolveAndAssert"
  /\ guardCall.input = InAlice2
  /\ ConfinementDecided
  /\ guardCall.result.code = "E_PATH_DENIED"

\* the root itself has been accepted
RootAccepted ==
  /\ guardCall.op = "resolveAndAssert"
  /\ guardCall.input = InAbsHome
  /\ guardCall.result = Ok(Home)


\* the non-sudo warn rules: UNIX_WARN without /\bsudo\b/i
IsSudoRule(pattern) == pattern = SudoRe
NonSudoWarn == SelectSeq(UNIX_WARN, LAMBDA pattern : ~IsSudoRule(pattern))

\* for each command explored: it matches a non-sudo warn rule and no deny
\* rule; it contains the word sudo
NonSudoWarnOf ==
  [c \in ClassifyCommands |->
    [warned |-> MatchesAny(NonSudoWarn, c) /\ ~MatchesAny(UNIX_DENY, c),
     hasSudo |-> Test(SudoRe, Trim(c))]] @@ <<>>

\* C27: on a POSIX platform a command that matches a non-sudo warn rule is
\* never classified allow, whatever allowSudo and checkSudoConfig are; sudo
\* rm -rf /x evaluated with allowSudo = true is warn
C27_NonSudoWarnNeverAllow ==
  \A i \in 1..Len(evalLog) :
    (~isWindows /\ NonSudoWarnOf[evalLog[i].command].warned) => evalLog[i].level # "allow"

\* the same for commands that do not contain the word sudo
WarnedWithoutSudoNeverAllow ==
  \A i \in 1..Len(evalLog) :
    (/\ ~isWindows
     /\ NonSudoWarnOf[evalLog[i].command].warned
     /\ ~NonSudoWarnOf[evalLog[i].command].hasSudo) => evalLog[i].level # "allow"


(***************************************************************************)
(* assertInHome called directly with its options (lib/pathUtils.js), as    *)
(* validatePathSafety and other callers that pass options do.              *)
(***************************************************************************)
\* the absolute paths handed to assertInHome: the link site, a file below the
\* home directory, the home directory and a file outside it
AssertPaths == { LinkSite, Home \o <<"notes">>, Home, <<"etc", "passwd">> }

\* one call of assertInHome(absPath, {allowSymlinks, strictMode})
AssertInHome(absPath, allowSymlinks, strictMode) ==
  /\ assertCall' = [called |-> TRUE, absPath |-> absPath, allowSymlinks |-> allowSymlinks,
                    strictMode |-> strictMode,
                    wasLink |-> existsSync(absPath) /\ isSymbolicLink(absPath),
                    result |-> assertInHome(absPath, allowSymlinks, strictMode)]
  /\ UNCHANGED <<wsVars, envVars, guardCall, resolveCall, resolveRepeat, cmdVars, permVars,
                 watchVars>>

InitAssert ==
  /\ platform \in Platforms
  /\ cwd = Home
  /\ links = {}
  /\ files = BaseFiles
  /\ GuardIdle /\ CmdIdle /\ PermIdle /\ WatchIdle /\ WsIdle

NextAssert ==
  \/ \E absPath \in AssertPaths, allowSymlinks \in BOOLEAN, strictMode \in BOOLEAN :
       AssertInHome(absPath, allowSymlinks, strictMode)
  \/ \E t \in LinkTargets : MakeLink(t)
  \/ RemoveLink
  \/ ToggleFile

SpecAssert == InitAssert /\ [][NextAssert]_vars

\* the call was made with allowSymlinks = false on an existing symbolic link
LinkWithoutLeave == assertCall.called /\ ~assertCall.allowSymlinks /\ assertCall.wasLink

\* C28: with allowSymlinks = false assertInHome never returns a path for an
\* existing symbolic link, in strict mode or not: the caller always gets
\* E_SYMLINK_DENIED
C28_SymlinkDenialNeverSwallowed ==
  LinkWithoutLeave => (~assertCall.result.ok /\ assertCall.result.code = "E_SYMLINK_DENIED")

\* in strict mode on linux and macOS the denial does reach the caller
StrictModeDeniesLinks ==
  (LinkWithoutLeave /\ isUnix /\ assertCall.strictMode)
    => (~assertCall.result.ok /\ assertCall.result.code = "E_SYMLINK_DENIED")

\* outside strict mode on linux and macOS the link's own path comes back
\* whenever it lies below the home directory
LenientModeReturnsLinkPath ==
  (LinkWithoutLeave /\ isUnix /\ ~assertCall.strictMode)
    => assertCall.result = Ok(assertCall.absPath)


\* call i of the log named a working directory the path guard does not allow
CwdRefused(i) == cmdLog[i].cwd # InNone /\ ~isPathAllowed(cmdLog[i].cwd, Null)

\* C30: a call that supplies a working directory the path guard does not
\* allow starts no process and returns the error outcome before the command
\* is classified, for every command and every value of confirm
C30_RefusedCwdStartsNothing ==
  \A i \in 1..Len(cmdLog) :
    CwdRefused(i) => /\ cmdLog[i].outcome = "cwd_denied"
                     /\ cmdLog[i].reason = "none"
                     /\ cmdLog[i].after = cmdLog[i].before

\* a harmless command confirmed by the caller, refused for its working
\* directory /etc/passwd with no process started
C30_Witness ==
  /\ Len(cmdLog) >= 1
  /\ cmdLog[1].command = CmdLs /\ cmdLog[1].confirm
  /\ cmdLog[1].cwd = InAbsEtc
  /\ CwdRefused(1)
  /\ cmdLog[1].outcome = "cwd_denied"
  /\ spawned = <<>>


(***************************************************************************)
(* The watcher driven by a caller of its own: any sequence of start() and  *)
(* stop() calls on one CrossPlatformWatcher, interleaved with the event    *)
(* loop and the file system.                                               *)
(***************************************************************************)
\* number of start() / stop() calls made after the first start()
MaxSessionCalls == 2

\* the watcher has been constructed and start() called once
Constructed == watchPc \notin {"idle", "rejected"}

\* watcher.start(): throws when the session is running, otherwise runs as the
\* first start() did
CallStart(watchThrows) ==
  /\ Constructed
  /\ sessionCall.n < MaxSessionCalls
  /\ IF isActive
     THEN /\ sessionCall' = [n |-> sessionCall.n + 1, op |-> "start", outcome |-> "rejected"]
          /\ UNCHANGED <<watchPc, wOptions, isActive, watchers, osHandles, debounceTimers,
                         timers, stats, tasks, emitted, activeWatchers>>
     ELSE \E w \in {start(watchPath, [Watcher EXCEPT !.watchPc = "starting"], watchThrows)} :
            /\ sessionCall' = [n |-> sessionCall.n + 1, op |-> "start",
                               outcome |-> IF w.watchPc = "failed" THEN "failed"
                                           ELSE "started"]
            /\ SetWatcher(w)
  /\ UNCHANGED <<wsVars, envVars, guardVars, cmdVars, permVars, watchPath, touches, raws,
                 bursts, unflushed>>

\* watcher.stop()
CallStop ==
  /\ Constructed
  /\ sessionCall.n < MaxSessionCalls
  /\ sessionCall' = [n |-> sessionCall.n + 1, op |-> "stop",
                     outcome |-> IF isActive THEN "stopped" ELSE "ignored"]
  /\ SetWatcher(IF isActive THEN [stop(Watcher) EXCEPT !.watchPc = "done"] ELSE Watcher)
  /\ unflushed' = IF isActive THEN [k \in RawKeys |-> FALSE] ELSE unflushed
  /\ UNCHANGED <<wsVars, envVars, guardVars, cmdVars, permVars, watchPath, touches, raws,
                 bursts>>

NextSession ==
  \/ \E in \in WatchInputs, recursive \in BOOLEAN, max_depth \in WatchDepthArgs,
        watchThrows \in BOOLEAN :
       StartWatch(in, recursive, max_depth, watchThrows)
  \/ \E watchThrows \in BOOLEAN : CallStart(watchThrows)
  \/ CallStop
  \/ \E task \in DOMAIN tasks, rev \in BOOLEAN : TaskStep(task, rev)
  \/ \E t \in timers : DebounceFire(t)
  \* one file system operation is enough to have a handle report and a timer pend
  \/ \E p \in WatchPaths, effect \in TouchEffects : touches = 0 /\ Touch(p, effect)

SpecSession == InitWatch /\ [][NextSession]_vars

\* stop() has run on the session at least once
HasStopped == \E e \in DOMAIN emitted : e.event = "stopped"
\* the step is a start() or a stop() made by the caller
Calls(op) == sessionCall'.n # sessionCall.n /\ sessionCall'.op = op

\* start() on a running session is rejected and leaves handles and timers alone
StartOnRunningRejected ==
  (Calls("start") /\ isActive)
    => /\ sessionCall'.outcome = "rejected"
       /\ UNCHANGED <<isActive, watchers, osHandles, debounceTimers, timers>>

\* stop() on a session that is not running changes nothing
StopOnIdleIgnored ==
  (Calls("stop") /\ ~isActive)
    => UNCHANGED <<isActive, watchers, osHandles, debounceTimers, timers, emitted>>

\* a stopped session is not active in the next state either
StoppedStaysStopped == (HasStopped /\ ~isActive) => ~isActive'

\* C24: under any sequence of start() and stop() calls the session moves only
\* along idle, starting, active, stopping, stopped: start() on a running
\* session is rejected without changing handles or timers, stop() on a session
\* that is not running changes nothing, and a stopped session does not become
\* active again
C24_SessionLifecycle ==
  [][StartOnRunningRejected /\ StopOnIdleIgnored /\ StoppedStaysStopped]_vars

\* the two guards at the head of start() and stop() do what the claim says
GuardsOfStartAndStop == [][StartOnRunningRejected /\ StopOnIdleIgnored]_vars

\* both guards have been exercised
StartRejectedSeen == sessionCall.op = "start" /\ sessionCall.outcome = "rejected"
StopIgnoredSeen == sessionCall.op = "stop" /\ sessionCall.outcome = "ignored"


\* the flush of a 'rename' for path p, awaiting fs.access
FlushTask(p) == <<Frame("flush", p, 0, "access", <<>>)>>
\* the step completes one such flush
Flushes(p) == CountOf(tasks', FlushTask(p)) < CountOf(tasks, FlushTask(p))
\* the step is the expiry of the debounce timer t
Fires(t) == t \in timers /\ t \notin timers' /\ stats'.eventsCount = stats.eventsCount + 1
\* the change events the step delivers
NewChanges ==
  { e \in DOMAIN emitted' : e.event = "change" /\ CountOf(emitted', e) > CountOf(emitted, e) }
Delivers(type, p) == \E e \in NewChanges : e.type = type /\ e.path = p

\* what a flushed 'rename' and a flushed 'change' are delivered as
FlushDelivery ==
  /\ \A p \in WatchPaths :
       Flushes(p) => Delivers(IF existsSync(p) THEN "create" ELSE "delete", p)
  /\ \A t \in timers :
       (Fires(t) /\ t.eventType = "change") => Delivers("modify", t.filePath)

\* where each delivered change event comes from
DeliveryOrigin ==
  \A e \in NewChanges :
    /\ e.type \in {"create", "modify", "delete"}
    /\ e.type = "create" => (Flushes(e.path) /\ existsSync(e.path))
    /\ e.type = "delete" => (Flushes(e.path) /\ ~existsSync(e.path))
    /\ e.type = "modify" => \E t \in timers : Fires(t) /\ t.eventType = "change"
                                                /\ t.filePath = e.path

\* C25: a flushed 'rename' is delivered as create when the path exists at
\* flush time and as delete otherwise, a 'change' is delivered as modify, and
\* every delivered event has a type among create, modify and delete
C25_DeliveredTypes == [][FlushDelivery /\ DeliveryOrigin]_vars

\* two flushes of one session: a delete delivered for a path that is gone and
\* a modify for a file that was written
C25_Witness ==
  /\ \E e \in DOMAIN emitted : e.event = "change" /\ e.type = "delete" /\ ~existsSync(e.path)
  /\ \E e \in DOMAIN emitted : e.event = "change" /\ e.type = "modify"


\* the entries of the watchers map
TrackedCount == Cardinality(DOMAIN watchers)

\* C29: in every reachable state stats.watchersCount is the number of entries
\* of the watchers map: after start-up registration, after a new directory is
\* armed, after the handle of a deleted directory is removed and after stop()
C29_CountMatchesMap == stats.watchersCount = TrackedCount

\* the counter is never below the number of entries
CountCoversMap == stats.watchersCount >= TrackedCount


\* the open handles of the emulated recursive mode
LiveManual == { i \in 1..Len(osHandles) : osHandles[i].open /\ ~osHandles[i].native }
\* handle i is the one the watchers map holds for its directory
Tracked(i) == osHandles[i].dir \in DOMAIN watchers /\ watchers[osHandles[i].dir] = i

\* C26: in emulated recursive mode, while the session runs, every watched
\* directory has at most one live OS handle and every live handle is tracked
\* in the watchers map, also when a new directory is armed by several
\* callbacks at once
C26_OneTrackedHandlePerDirectory ==
  ~Stopped =>
    /\ \A i, j \in LiveManual : osHandles[i].dir = osHandles[j].dir => i = j
    /\ \A i \in LiveManual : Tracked(i)

\* the map itself never points at a closed handle while the session runs
MapEntriesAreLive ==
  ~Stopped => \A d \in DOMAIN watchers : osHandles[watchers[d]].open


====
